---- MODULE Spec2Model ----
(***************************************************************************)
(* dual-file-parser: the single-writer parse queue, the job registry       *)
(* (apiJobResults), processParseJob with its batch accumulator, and the    *)
(* event-driven row loop of parseCSVStream.                                *)
(*                                                                         *)
(* One action is one run-to-completion segment of JavaScript: the code     *)
(* between two suspension points (await of countRecords, of                *)
(* ensureTableExists, of upsertRecordsBatch, or the return to the event    *)
(* loop).  Rows of the input may reach the tokenizer's buffer in chunks of *)
(* any size, so the row loop is modelled one row per step.                 *)
(***************************************************************************)
EXTENDS Integers, Sequences, FiniteSets, TLC

\* ---- bounds of the model ----
\* The uploads that reach the server are either up to NumJobs files with
\* MaxRows data rows between them, or one file of up to MaxRowsOne rows.
NumJobs == 2
MaxRows == 3
MaxRowsOne == 5
\* Rows between the NumJobs files in the instance explored for liveness.
MaxRowsFair == 2
\* Longest first line of a file given to the format detector.
MaxLineLen == 3
MaxDataRows == 3
MaxStreamRows == 5
MaxCap == 2
MaxCellLen == 3
MaxColumns == 2
MaxRowCells == 2
ManyCount == 12
MaxParseRows == 3

\* ---- program constants (scaled) ----
BATCH_SIZE == 2
MAX_BATCH_SIZE == BATCH_SIZE * 2
BATCH_FLUSH_INTERVAL_MS == 1
Concurrency == 1
SAMPLE_LIMIT == 2

Jobs == 1..NumJobs

RowCounts == 0..(IF MaxRows > MaxRowsOne THEN MaxRows ELSE MaxRowsOne)

VARIABLES
    uploads,             \* environment: number of upload requests to come
    rowsLeft,            \* environment: data rows the coming files may hold
    useDatabase,         \* USE_DATABASE, fixed at start-up
    tasks,               \* parseQueue: jobs pushed and not yet started
    running,             \* parseQueue.running()
    pushLog,             \* history: jobs in the order of parseQueue.push
    startLog,            \* history: jobs in the order their worker started
    ahead,               \* history: jobs queued or running when the job was pushed
    isApi,               \* job.isApi
    rows,                \* data rows of the job's file (header excluded)
    reg,                 \* apiJobResults: job id -> status document
    timer,               \* the setTimeout that deletes the registry entry
    wpc,                 \* position of processParseJob for the job
    cpc,                 \* position of the job's in-flight onRecord callback
    unread,              \* rows the row loop has not read yet
    ended,               \* the tokenizer's readable side has seen EOF
    endSched,            \* 'end' is scheduled (read() reached EOF)
    destroyed,           \* the tokenizer emitted 'error'
    zombie,              \* row loop still alive after the promise rejected
    recordCount,         \* recordCount of the job
    batch,               \* batch of the job: line numbers of its records
    lastProgressSent,
    timeSinceLastInsert, \* Date.now() - lastBatchInsertTime (up to the interval)
    handed,              \* history: line of the last record given to the store
    lastFlusher,         \* history: job of the latest upsertRecordsBatch call
    nonEmptyRows,        \* history: rows read whose record has a field
    call                 \* a call of a parser function: arguments and results

serverVars ==
    << uploads, rowsLeft, useDatabase, tasks, running, pushLog, startLog,
       ahead, isApi, rows, reg, timer, wpc, cpc, unread, ended, endSched,
       destroyed, zombie, recordCount, batch, lastProgressSent,
       timeSinceLastInsert, handed, lastFlusher, nonEmptyRows >>

vars == << uploads, rowsLeft, useDatabase, tasks, running, pushLog, startLog,
           ahead, isApi, rows,
           reg, timer, wpc, cpc, unread, ended, endSched,
           destroyed, zombie, recordCount, batch, lastProgressSent,
           timeSinceLastInsert, handed, lastFlusher, nonEmptyRows, call >>

\* ---- registry documents ----
Terminal == {"completed", "failed"}

\* the object {} that updateJobStatus starts from when the id is not in the map
EmptyDoc ==
    [status |-> "undefined", queuePosition |-> -1, progress |-> -1,
     current |-> -1, total |-> -1, completedAt |-> FALSE, failedAt |-> FALSE,
     result |-> -1, error |-> FALSE]

\* apiJobResults.get(jobId) === undefined
NoDoc == [EmptyDoc EXCEPT !.status = "absent"]

\* { ...current, ...updates }
Merge(doc, updates) ==
    [f \in DOMAIN doc |-> IF f \in DOMAIN updates THEN updates[f] ELSE doc[f]]

\* updateJobStatus: apiJobResults.get(jobId) || {}, then set
UpdateJobStatus(r, j, api, updates) ==
    IF api
    THEN [r EXCEPT ![j] = Merge(IF r[j].status = "absent" THEN EmptyDoc
                                ELSE r[j], updates)]
    ELSE r

\* sendProgress: the registry part (the SSE write has no state)
SendProgress(r, j, api, progress, current, total) ==
    UpdateJobStatus(r, j, api,
        [progress |-> progress, current |-> current, total |-> total,
         status |-> "processing"])

\* parseQueue.length() + (parseQueue.running() > 0 ? 1 : 0)
QueuePosition(t, run) == Len(t) + (IF run > 0 THEN 1 ELSE 0)

\* Math.min(100, Math.floor((recordCount / totalRecordCount) * 100))
ProgressPercent(rc, total) ==
    LET p == (rc * 100) \div total IN IF p > 100 THEN 100 ELSE p

\* the state of the server after start-up, before any request; shapes is
\* the set of << number of uploads, rows between them >> to come
NoCall == [stage |-> "none"]

ServerInit(shapes) ==
    /\ \E e \in shapes : uploads = e[1] /\ rowsLeft = e[2]
    /\ useDatabase \in BOOLEAN
    /\ tasks = << >>
    /\ running = 0
    /\ pushLog = << >>
    /\ startLog = << >>
    /\ ahead = [j \in Jobs |-> {}]
    /\ isApi = [j \in Jobs |-> TRUE]
    /\ rows = [j \in Jobs |-> 0]
    /\ reg = [j \in Jobs |-> NoDoc]
    /\ timer = [j \in Jobs |-> "none"]
    /\ wpc = [j \in Jobs |-> "new"]
    /\ cpc = [j \in Jobs |-> "none"]
    /\ unread = [j \in Jobs |-> 0]
    /\ ended = [j \in Jobs |-> FALSE]
    /\ endSched = [j \in Jobs |-> FALSE]
    /\ destroyed = [j \in Jobs |-> FALSE]
    /\ zombie = [j \in Jobs |-> FALSE]
    /\ recordCount = [j \in Jobs |-> 0]
    /\ batch = [j \in Jobs |-> << >>]
    /\ lastProgressSent = [j \in Jobs |-> -1]
    /\ timeSinceLastInsert = [j \in Jobs |-> 0]
    /\ handed = [j \in Jobs |-> 0]
    /\ lastFlusher = 0
    /\ nonEmptyRows = [j \in Jobs |-> 0]

InitWith(shapes) == ServerInit(shapes) /\ call = NoCall

\* ---- positions of processParseJob ----
Init == InitWith({<< NumJobs, MaxRows >>, << 1, MaxRowsOne >>})

Exec == {"count", "ensure", "parse", "final"}
Executing == {j \in Jobs : wpc[j] \in Exec}
Queued == {j \in Jobs : wpc[j] = "queued"}
Returned == {j \in Jobs : wpc[j] \in {"completed", "failed"}}

\* ---- the locals of a job go out of scope ----
\* processParseJob has returned and no callback or row loop of the job is
\* left: its closure is unreachable.  The model gives the locals their
\* initial values, before the next event is handled (NoGarbage guards
\* every other action).
InScope(j) ==
    \/ wpc[j] \in Exec
    \/ cpc[j] # "none"
    \/ zombie[j] /\ unread[j] > 0

Released(j) ==
    /\ unread[j] = 0 /\ ~ended[j] /\ ~endSched[j] /\ ~destroyed[j]
    /\ ~zombie[j] /\ recordCount[j] = 0 /\ batch[j] = << >>
    /\ lastProgressSent[j] = -1 /\ timeSinceLastInsert[j] = 0
    /\ handed[j] = 0 /\ lastFlusher # j /\ nonEmptyRows[j] = 0

Garbage(j) == wpc[j] \in {"completed", "failed"} /\ ~InScope(j) /\ ~Released(j)

Release(j) ==
    /\ Garbage(j)
    /\ unread' = [unread EXCEPT ![j] = 0]
    /\ ended' = [ended EXCEPT ![j] = FALSE]
    /\ endSched' = [endSched EXCEPT ![j] = FALSE]
    /\ destroyed' = [destroyed EXCEPT ![j] = FALSE]
    /\ zombie' = [zombie EXCEPT ![j] = FALSE]
    /\ recordCount' = [recordCount EXCEPT ![j] = 0]
    /\ batch' = [batch EXCEPT ![j] = << >>]
    /\ lastProgressSent' = [lastProgressSent EXCEPT ![j] = -1]
    /\ timeSinceLastInsert' = [timeSinceLastInsert EXCEPT ![j] = 0]
    /\ handed' = [handed EXCEPT ![j] = 0]
    /\ lastFlusher' = IF lastFlusher = j THEN 0 ELSE lastFlusher
    /\ nonEmptyRows' = [nonEmptyRows EXCEPT ![j] = 0]
    /\ UNCHANGED call
    /\ UNCHANGED << uploads, rowsLeft, useDatabase, tasks, running, pushLog,
                    startLog, ahead, isApi, rows, reg, timer, wpc, cpc >>

NoGarbage == \A j \in Jobs : ~Garbage(j)

\* ---- the clock ----
\* Time passes for the jobs whose callback reads the clock.  The elapsed
\* time stops counting at the value the code compares it with.
Measuring(j) == wpc[j] = "parse" \/ cpc[j] # "none" \/ zombie[j]

Min(a, b) == IF a < b THEN a ELSE b

Tick ==
    /\ NoGarbage
    /\ \E j \in Jobs :
          Measuring(j) /\ timeSinceLastInsert[j] < BATCH_FLUSH_INTERVAL_MS
    /\ timeSinceLastInsert' = [j \in Jobs |->
          IF Measuring(j)
          THEN Min(timeSinceLastInsert[j] + 1, BATCH_FLUSH_INTERVAL_MS)
          ELSE timeSinceLastInsert[j]]
    /\ UNCHANGED << handed, lastFlusher, nonEmptyRows, call >>
    /\ UNCHANGED << uploads, rowsLeft, useDatabase, tasks, running, pushLog,
                    startLog, ahead, isApi, rows, reg, timer, wpc, cpc, unread,
                    ended, endSched, destroyed, zombie, recordCount, batch,
                    lastProgressSent >>

\* ---- POST /api/parse, the part after `await countRecords` ----
\* Jobs are submitted in the order of their ids (ids are fresh per request).
SubmitApi(j, n) ==
    /\ NoGarbage
    /\ wpc[j] = "new"
    /\ uploads > 0
    /\ n <= rowsLeft
    /\ uploads' = uploads - 1
    /\ rowsLeft' = rowsLeft - n
    /\ \A i \in Jobs : i < j => wpc[i] # "new"
    /\ isApi' = [isApi EXCEPT ![j] = TRUE]
    /\ rows' = [rows EXCEPT ![j] = n]
    /\ reg' = [reg EXCEPT ![j] =
                 [status |-> "queued",
                  queuePosition |-> QueuePosition(tasks, running),
                  progress |-> 0, current |-> 0, total |-> n,
                  completedAt |-> FALSE, failedAt |-> FALSE,
                  result |-> -1, error |-> FALSE]]
    /\ timer' = [timer EXCEPT ![j] = "armed"]
    /\ tasks' = Append(tasks, j)
    /\ pushLog' = Append(pushLog, j)
    /\ wpc' = [wpc EXCEPT ![j] = "queued"]
    /\ ahead' = [ahead EXCEPT ![j] = Executing \cup Queued]
    /\ UNCHANGED << handed, lastFlusher, nonEmptyRows, call >>
    /\ UNCHANGED << useDatabase, running, startLog, cpc, unread, ended,
                    endSched, destroyed, zombie, recordCount, batch,
                    lastProgressSent, timeSinceLastInsert >>

\* ---- POST /api/parse when countRecords rejects: nothing is registered ----
SubmitApiRejected(j) ==
    /\ NoGarbage
    /\ wpc[j] = "new"
    /\ uploads > 0
    /\ uploads' = uploads - 1
    /\ \A i \in Jobs : i < j => wpc[i] # "new"
    /\ wpc' = [wpc EXCEPT ![j] = "rejected"]
    /\ UNCHANGED << handed, lastFlusher, nonEmptyRows, call >>
    /\ UNCHANGED << rowsLeft, useDatabase, tasks, running, pushLog, startLog, ahead,
                    isApi, rows, reg, timer, cpc, unread, ended, endSched,
                    destroyed, zombie, recordCount, batch, lastProgressSent,
                    timeSinceLastInsert >>

\* ---- POST /parse (server-sent events): no registry document ----
SubmitSse(j, n) ==
    /\ NoGarbage
    /\ wpc[j] = "new"
    /\ uploads > 0
    /\ n <= rowsLeft
    /\ uploads' = uploads - 1
    /\ rowsLeft' = rowsLeft - n
    /\ \A i \in Jobs : i < j => wpc[i] # "new"
    /\ isApi' = [isApi EXCEPT ![j] = FALSE]
    /\ rows' = [rows EXCEPT ![j] = n]
    /\ tasks' = Append(tasks, j)
    /\ pushLog' = Append(pushLog, j)
    /\ wpc' = [wpc EXCEPT ![j] = "queued"]
    /\ ahead' = [ahead EXCEPT ![j] = Executing \cup Queued]
    /\ UNCHANGED << handed, lastFlusher, nonEmptyRows, call >>
    /\ UNCHANGED << useDatabase, running, startLog, reg, timer, cpc, unread,
                    ended, endSched, destroyed, zombie, recordCount, batch,
                    lastProgressSent, timeSinceLastInsert >>

\* ---- the timer armed by POST /api/parse fires ----
\* JOB_RESULT_TTL after the submission.  No step of a job has a bounded
\* duration, so the timer can fire between any two later steps.
Evict(j) ==
    /\ NoGarbage
    /\ timer[j] = "armed"
    /\ timer' = [timer EXCEPT ![j] = "fired"]
    /\ reg' = [reg EXCEPT ![j] = NoDoc]
    /\ UNCHANGED << handed, lastFlusher, nonEmptyRows, call >>
    /\ UNCHANGED << uploads, rowsLeft, useDatabase, tasks, running, pushLog,
                    startLog, ahead, isApi, rows, wpc, cpc, unread, ended, endSched,
                    destroyed, zombie, recordCount, batch, lastProgressSent,
                    timeSinceLastInsert >>

\* ---- async.queue: q.process() with the worker's synchronous prefix ----
\* The worker runs detectFileFormat and suspends in `await countRecords`.
CanStart_two(t, run) == run < Concurrency + 1 /\ t # << >>

CanStart(t, run) == run < Concurrency /\ t # << >>

\* tasks.shift(): the queue is first in, first out
NextTask(t) == Head(t)

Dequeue ==
    /\ NoGarbage
    /\ CanStart(tasks, running)
    /\ tasks' = SelectSeq(tasks, LAMBDA x : x # NextTask(tasks))
    /\ running' = running + 1
    /\ startLog' = Append(startLog, NextTask(tasks))
    /\ wpc' = [wpc EXCEPT ![NextTask(tasks)] = "count"]
    /\ UNCHANGED << handed, lastFlusher, nonEmptyRows, call >>
    /\ UNCHANGED << uploads, rowsLeft, useDatabase, pushLog, ahead, isApi, rows, reg,
                    timer, cpc, unread, ended, endSched, destroyed, zombie,
                    recordCount, batch, lastProgressSent, timeSinceLastInsert >>

Return_leak(j, st) ==
    /\ tasks' = tasks
    /\ running' = running
    /\ startLog' = startLog
    /\ wpc' = [wpc EXCEPT ![j] = st]

\* q.process() as called from the completion callback of job j's worker:
\* the worker count drops and the next task, if any, starts at once.
Return(j, st) ==
    IF CanStart(tasks, running - 1)
    THEN /\ tasks' = SelectSeq(tasks, LAMBDA x : x # NextTask(tasks))
         /\ running' = running
         /\ startLog' = Append(startLog, NextTask(tasks))
         /\ wpc' = [wpc EXCEPT ![j] = st, ![NextTask(tasks)] = "count"]
    ELSE /\ tasks' = tasks
         /\ running' = running - 1
         /\ startLog' = startLog
         /\ wpc' = [wpc EXCEPT ![j] = st]

Failed_unmarked(r, j, api) == r

\* the catch block of processParseJob
Failed(r, j, api) ==
    UpdateJobStatus(r, j, api,
        [status |-> "failed", error |-> TRUE, failedAt |-> TRUE])

\* the end of the try block of processParseJob
Completed(r, j, api, rc, total) ==
    UpdateJobStatus(SendProgress(r, j, api, 100, rc, total), j, api,
        [status |-> "completed", progress |-> 100, current |-> rc,
         result |-> rc, completedAt |-> TRUE])

\* GET /api/result/:jobId: the status code and the body of the response
GetResult(r, j) ==
    IF r[j].status = "absent"
    THEN [code |-> 404, status |-> "none", progress |-> -1, result |-> -1]
    ELSE IF r[j].status # "completed"
    THEN [code |-> 400, status |-> r[j].status, progress |-> r[j].progress,
          result |-> -1]
    ELSE [code |-> 200, status |-> "none", progress |-> -1,
          result |-> r[j].result]

\* ---- processParseJob: `await countRecords` settles ----
CountDone(j, ok) ==
    /\ NoGarbage
    /\ wpc[j] = "count"
    /\ IF ok
       THEN /\ reg' = UpdateJobStatus(
                         SendProgress(reg, j, isApi[j], 0, 0, rows[j]),
                         j, isApi[j], [status |-> "processing"])
            /\ IF useDatabase
               THEN /\ wpc' = [wpc EXCEPT ![j] = "ensure"]
                    /\ UNCHANGED << unread, timeSinceLastInsert >>
               ELSE /\ wpc' = [wpc EXCEPT ![j] = "parse"]
                    /\ unread' = [unread EXCEPT ![j] = rows[j]]
                    /\ timeSinceLastInsert' =
                           [timeSinceLastInsert EXCEPT ![j] = 0]
            /\ UNCHANGED << tasks, running, startLog >>
       ELSE /\ reg' = Failed(reg, j, isApi[j])
            /\ Return(j, "failed")
            /\ UNCHANGED << unread, timeSinceLastInsert >>
    /\ UNCHANGED << handed, lastFlusher, nonEmptyRows, call >>
    /\ UNCHANGED << uploads, rowsLeft, useDatabase, pushLog, ahead, isApi, rows,
                    timer, cpc, ended, endSched, destroyed, zombie,
                    recordCount, batch, lastProgressSent >>

\* ---- processParseJob: `await ensureTableExists` settles (a failure is
\* caught and logged), then parseCSVStream is called and pipes the stream ----
EnsureDone(j) ==
    /\ NoGarbage
    /\ wpc[j] = "ensure"
    /\ wpc' = [wpc EXCEPT ![j] = "parse"]
    /\ unread' = [unread EXCEPT ![j] = rows[j]]
    /\ timeSinceLastInsert' = [timeSinceLastInsert EXCEPT ![j] = 0]
    /\ UNCHANGED << handed, lastFlusher, nonEmptyRows, call >>
    /\ UNCHANGED << uploads, rowsLeft, useDatabase, tasks, running, pushLog,
                    startLog, ahead, isApi, rows, reg, timer, cpc, ended, endSched,
                    destroyed, zombie, recordCount, batch, lastProgressSent >>

\* ---- upsertRecordsBatch(batch, metadata) is called with batch b ----
HandedAfter(h, j, b, called) ==
    IF called THEN [h EXCEPT ![j] = b[Len(b)]] ELSE h

FlusherAfter(f, j, called) == IF called THEN j ELSE f

\* ---- the onRecord callback of processParseJob ----
ShouldFlush_size(len, elapsed) == len >= BATCH_SIZE

\* batch.length >= BATCH_SIZE || shouldFlushByTime
ShouldFlush(len, elapsed) ==
    len >= BATCH_SIZE \/ (len > 0 /\ elapsed >= BATCH_FLUSH_INTERVAL_MS)

AtCeiling_above(len) == len > MAX_BATCH_SIZE

\* batch.length >= MAX_BATCH_SIZE
AtCeiling(len) == len >= MAX_BATCH_SIZE

BatchAfterUpsert_keep(b, ok) == IF ok THEN << >> ELSE b

\* batch = [] after `await upsertRecordsBatch`, in the try and in the catch
BatchAfterUpsert(b, ok) == << >>

\* line number of the row the loop read last (the header is line 1)
LineOf(j, left) == rows[j] - left + 1

\* "Calculate and send progress updates"
Progress(j, rc, lps, r) ==
    IF rows[j] > 0
    THEN LET p == ProgressPercent(rc, rows[j]) IN
         IF p # lps \/ rc % 1000 = 0
         THEN [lps |-> p, reg |-> SendProgress(r, j, isApi[j], p, rc, rows[j])]
         ELSE [lps |-> lps, reg |-> r]
    ELSE IF rc % 1000 = 0
         THEN [lps |-> lps, reg |-> SendProgress(r, j, isApi[j], 0, rc, 0)]
         ELSE [lps |-> lps, reg |-> r]

PushAndDecide_always(j, b, line, rc, since, lps, r) ==
    LET b2 == Append(b, line) IN
    IF ShouldFlush(Len(b2), since)
    THEN [batch |-> b2, cpc |-> "flush", lps |-> lps, reg |-> r]
    ELSE LET pr == Progress(j, rc, lps, r) IN
         [batch |-> b2, cpc |-> "none", lps |-> pr.lps, reg |-> pr.reg]

\* from batch.push(record) to the next suspension or the callback's end
PushAndDecide(j, b, line, rc, since, lps, r) ==
    LET b2 == Append(b, line) IN
    IF useDatabase /\ ShouldFlush(Len(b2), since)
    THEN [batch |-> b2, cpc |-> "flush", lps |-> lps, reg |-> r]
    ELSE LET pr == Progress(j, rc, lps, r) IN
         [batch |-> b2, cpc |-> "none", lps |-> pr.lps, reg |-> pr.reg]

\* from recordCount++ to the next suspension or the callback's end
OnRecord(j, line) ==
    LET rc == recordCount[j] + 1 IN
    IF AtCeiling(Len(batch[j]))
    THEN IF useDatabase
         THEN [batch |-> batch[j], cpc |-> "forced",
               lps |-> lastProgressSent[j], reg |-> reg]
         ELSE PushAndDecide(j, << >>, line, rc, timeSinceLastInsert[j],
                            lastProgressSent[j], reg)
    ELSE PushAndDecide(j, batch[j], line, rc, timeSinceLastInsert[j],
                       lastProgressSent[j], reg)

\* ---- parseCSVStream.processRows ----
\* `processing`: a row loop of the job is alive; between two events it is
\* alive exactly while it awaits its callback
Processing(j) == cpc[j] # "none"

HandlerRuns_unguarded(flag) == TRUE

\* `if (processing) return` at the head of the 'readable' handler
HandlerRuns(flag) == ~flag

Skipped_never(nonEmpty) == FALSE

\* `if (Object.keys(record).length === 0) continue`
Skipped(nonEmpty) == ~nonEmpty

\* one row of the while loop
\* nonEmpty: transformRow gave the row at least one field
ReadRow(j, nonEmpty) ==
    /\ NoGarbage
    /\ unread[j] > 0
    /\ HandlerRuns(Processing(j))
    /\ wpc[j] = "parse" \/ zombie[j]
    /\ unread' = [unread EXCEPT ![j] = @ - 1]
    /\ endSched' = [endSched EXCEPT ![j] = @ \/ (ended[j] /\ unread[j] = 1)]
    /\ nonEmptyRows' =
          [nonEmptyRows EXCEPT ![j] = @ + (IF nonEmpty THEN 1 ELSE 0)]
    /\ IF ~Skipped(nonEmpty)
       THEN LET c == OnRecord(j, LineOf(j, unread[j] - 1)) IN
            /\ recordCount' = [recordCount EXCEPT ![j] = @ + 1]
            /\ batch' = [batch EXCEPT ![j] = c.batch]
            /\ cpc' = [cpc EXCEPT ![j] = c.cpc]
            /\ lastProgressSent' = [lastProgressSent EXCEPT ![j] = c.lps]
            /\ reg' = c.reg
            /\ handed' = HandedAfter(handed, j, c.batch, c.cpc # "none")
            /\ lastFlusher' = FlusherAfter(lastFlusher, j, c.cpc # "none")
       ELSE UNCHANGED << recordCount, batch, cpc, lastProgressSent, reg,
                         handed, lastFlusher >>
    /\ UNCHANGED call
    /\ UNCHANGED << uploads, rowsLeft, useDatabase, tasks, running, pushLog,
                    startLog, ahead, isApi, rows, timer, wpc, ended, destroyed,
                    zombie, timeSinceLastInsert >>

\* ---- the callback's `await upsertRecordsBatch` settles ----
\* ok: the store adapter resolved; otherwise it threw and the catch ran
CallbackStoreReturn(j, ok) ==
    /\ NoGarbage
    /\ cpc[j] \in {"forced", "flush"}
    /\ LET since == IF ok THEN 0 ELSE timeSinceLastInsert[j]
           c == IF cpc[j] = "forced"
                THEN PushAndDecide(j, BatchAfterUpsert(batch[j], ok),
                                   LineOf(j, unread[j]),
                                   recordCount[j], since,
                                   lastProgressSent[j], reg)
                ELSE LET pr == Progress(j, recordCount[j],
                                        lastProgressSent[j], reg) IN
                     [batch |-> BatchAfterUpsert(batch[j], ok),
                      cpc |-> "none", lps |-> pr.lps,
                      reg |-> pr.reg]
       IN /\ timeSinceLastInsert' = [timeSinceLastInsert EXCEPT ![j] = since]
          /\ batch' = [batch EXCEPT ![j] = c.batch]
          /\ cpc' = [cpc EXCEPT ![j] = c.cpc]
          /\ lastProgressSent' = [lastProgressSent EXCEPT ![j] = c.lps]
          /\ reg' = c.reg
          /\ handed' = HandedAfter(handed, j, c.batch, c.cpc # "none")
          /\ lastFlusher' = FlusherAfter(lastFlusher, j, c.cpc # "none")
          \* the loop goes on: read() past EOF schedules 'end'
          /\ endSched' = [endSched EXCEPT ![j] =
                 @ \/ (c.cpc = "none" /\ ended[j] /\ unread[j] = 0
                       /\ ~destroyed[j])]
    /\ UNCHANGED << nonEmptyRows, call >>
    /\ UNCHANGED << uploads, rowsLeft, useDatabase, tasks, running, pushLog,
                    startLog, ahead, isApi, rows, timer, wpc, unread, ended,
                    destroyed, zombie, recordCount >>

\* ---- the tokenizer reaches the end of its input: push(null), 'readable' ----
Eof(j) ==
    /\ NoGarbage
    /\ wpc[j] = "parse"
    /\ ~ended[j]
    /\ ended' = [ended EXCEPT ![j] = TRUE]
    \* the 'readable' handler returns at once while a callback is awaited
    /\ endSched' = [endSched EXCEPT ![j] = unread[j] = 0 /\ cpc[j] = "none"]
    /\ UNCHANGED << handed, lastFlusher, nonEmptyRows, call >>
    /\ UNCHANGED << uploads, rowsLeft, useDatabase, tasks, running, pushLog,
                    startLog, ahead, isApi, rows, reg, timer, wpc, cpc, unread,
                    destroyed, zombie, recordCount, batch, lastProgressSent,
                    timeSinceLastInsert >>

\* ---- parser.on('end'): resolve(); processParseJob goes on after
\* `await parseCSVStream` up to the final upsert or to its return ----
NeedsFinalFlush(b) == useDatabase /\ Len(b) > 0

EmitEnd(j) ==
    /\ NoGarbage
    /\ wpc[j] = "parse"
    /\ endSched[j]
    /\ IF NeedsFinalFlush(batch[j])
       THEN /\ wpc' = [wpc EXCEPT ![j] = "final"]
            /\ handed' = HandedAfter(handed, j, batch[j], TRUE)
            /\ lastFlusher' = FlusherAfter(lastFlusher, j, TRUE)
            /\ UNCHANGED << reg, tasks, running, startLog >>
       ELSE /\ reg' = Completed(reg, j, isApi[j], recordCount[j], rows[j])
            /\ Return(j, "completed")
            /\ UNCHANGED << handed, lastFlusher >>
    /\ UNCHANGED << nonEmptyRows, call >>
    /\ UNCHANGED << uploads, rowsLeft, useDatabase, pushLog, ahead, isApi, rows,
                    timer, cpc, unread, ended, endSched, destroyed, zombie,
                    recordCount, batch, lastProgressSent, timeSinceLastInsert >>

\* ---- the final `await upsertRecordsBatch` settles (resolved or thrown) ----
FinalStoreReturn(j) ==
    /\ NoGarbage
    /\ wpc[j] = "final"
    /\ reg' = Completed(reg, j, isApi[j], recordCount[j], rows[j])
    /\ Return(j, "completed")
    /\ UNCHANGED << handed, lastFlusher, nonEmptyRows, call >>
    /\ UNCHANGED << uploads, rowsLeft, useDatabase, pushLog, ahead, isApi, rows,
                    timer, cpc, unread, ended, endSched, destroyed, zombie,
                    recordCount, batch, lastProgressSent, timeSinceLastInsert >>

\* ---- parser.on('error') (tokenizer or input stream): reject(err), the
\* catch block of processParseJob runs.  A row loop that is awaiting a
\* callback is not cancelled and may go on reading buffered rows. ----
\* buffered: the rows already in the tokenizer's buffer, which that loop
\* still reads; an idle loop is never started again.
ParserError(j, buffered) ==
    /\ NoGarbage
    /\ wpc[j] = "parse"
    /\ ~ended[j]
    /\ buffered <= unread[j]
    /\ cpc[j] = "none" => buffered = 0
    /\ destroyed' = [destroyed EXCEPT ![j] = TRUE]
    /\ zombie' = [zombie EXCEPT ![j] = cpc[j] # "none"]
    /\ unread' = [unread EXCEPT ![j] = buffered]
    /\ reg' = Failed(reg, j, isApi[j])
    /\ Return(j, "failed")
    /\ UNCHANGED << handed, lastFlusher, nonEmptyRows, call >>
    /\ UNCHANGED << uploads, rowsLeft, useDatabase, pushLog, ahead, isApi, rows,
                    timer, cpc, ended, endSched, recordCount, batch,
                    lastProgressSent, timeSinceLastInsert >>

Next ==
    \/ \E j \in Jobs : Release(j)
    \/ Tick
    \/ \E j \in Jobs, n \in RowCounts : SubmitApi(j, n)
    \/ \E j \in Jobs : SubmitApiRejected(j)
    \/ \E j \in Jobs, n \in RowCounts : SubmitSse(j, n)
    \/ \E j \in Jobs : Evict(j)
    \/ Dequeue
    \/ \E j \in Jobs, ok \in BOOLEAN : CountDone(j, ok)
    \/ \E j \in Jobs : EnsureDone(j)
    \/ \E j \in Jobs, ne \in BOOLEAN : ReadRow(j, ne)
    \/ \E j \in Jobs, ok \in BOOLEAN : CallbackStoreReturn(j, ok)
    \/ \E j \in Jobs : Eof(j)
    \/ \E j \in Jobs : EmitEnd(j)
    \/ \E j \in Jobs : FinalStoreReturn(j)
    \/ \E j \in Jobs, k \in RowCounts : ParserError(j, k)

Spec == Init /\ [][Next]_vars

\* ---- the server with a store adapter that is down: every
\* upsertRecordsBatch of a callback throws ----
StoreDownNext ==
    \/ \E j \in Jobs : Release(j)
    \/ Tick
    \/ \E j \in Jobs, n \in RowCounts : SubmitApi(j, n)
    \/ \E j \in Jobs : SubmitApiRejected(j)
    \/ \E j \in Jobs, n \in RowCounts : SubmitSse(j, n)
    \/ \E j \in Jobs : Evict(j)
    \/ Dequeue
    \/ \E j \in Jobs, ok \in BOOLEAN : CountDone(j, ok)
    \/ \E j \in Jobs : EnsureDone(j)
    \/ \E j \in Jobs, ne \in BOOLEAN : ReadRow(j, ne)
    \/ \E j \in Jobs : CallbackStoreReturn(j, FALSE)
    \/ \E j \in Jobs : Eof(j)
    \/ \E j \in Jobs : EmitEnd(j)
    \/ \E j \in Jobs : FinalStoreReturn(j)
    \/ \E j \in Jobs, k \in RowCounts : ParserError(j, k)

StoreDownInit == Init /\ useDatabase

StoreDownSpec == StoreDownInit /\ [][StoreDownNext]_vars

\* ---- the server with the store enabled, a store adapter none of whose
\* writes fails and input streams that raise no error ----
StoreUpNext ==
    \/ \E j \in Jobs : Release(j)
    \/ Tick
    \/ \E j \in Jobs, n \in RowCounts : SubmitApi(j, n)
    \/ \E j \in Jobs : SubmitApiRejected(j)
    \/ \E j \in Jobs, n \in RowCounts : SubmitSse(j, n)
    \/ \E j \in Jobs : Evict(j)
    \/ Dequeue
    \/ \E j \in Jobs, ok \in BOOLEAN : CountDone(j, ok)
    \/ \E j \in Jobs : EnsureDone(j)
    \/ \E j \in Jobs, ne \in BOOLEAN : ReadRow(j, ne)
    \/ \E j \in Jobs : CallbackStoreReturn(j, TRUE)
    \/ \E j \in Jobs : Eof(j)
    \/ \E j \in Jobs : EmitEnd(j)
    \/ \E j \in Jobs : FinalStoreReturn(j)

StoreUpInit == Init /\ useDatabase

StoreUpSpec == StoreUpInit /\ [][StoreUpNext]_vars

\* ---- fairness: the event loop runs a ready callback, and every pending
\* call to the file system or to the store adapter settles. Each of these
\* steps consumes something (a queued task, an await, a buffered row), so weak
\* fairness of their disjunction lets every one of them happen. ----
WorkerStep ==
    \/ Dequeue
    \/ \E j \in Jobs :
         \/ Release(j)
         \/ \E ok \in BOOLEAN : CountDone(j, ok)
         \/ EnsureDone(j)
         \/ \E ne \in BOOLEAN : ReadRow(j, ne)
         \/ \E ok \in BOOLEAN : CallbackStoreReturn(j, ok)
         \/ Eof(j)
         \/ EmitEnd(j)
         \/ FinalStoreReturn(j)

Fairness == WF_vars(WorkerStep)

FairInit == InitWith({<< NumJobs, MaxRowsFair >>})

FairSpec == FairInit /\ [][Next]_vars /\ Fairness

\* ================= the parser functions on text =================
\* Text is a sequence of characters.  The characters of the model:
Comma == ","
Tab == "\t"
Space == " "
Apostrophe == "'"
Chars == {"a", "B", Comma, Tab, Space, Apostrophe}

\* String.prototype.toLowerCase on the characters of the model
LowerChar(c) ==
    CASE c = "A" -> "a"
      [] c = "B" -> "b"
      [] c = "F" -> "f"
      [] c = "N" -> "n"
      [] OTHER -> c

ToLowerCase(t) == [i \in 1..Len(t) |-> LowerChar(t[i])]

Whitespace == {Space, Tab}

\* String.prototype.trim
RECURSIVE TrimStart(_)
TrimStart(t) ==
    IF t # << >> /\ Head(t) \in Whitespace THEN TrimStart(Tail(t)) ELSE t

RECURSIVE TrimEnd(_)
TrimEnd(t) ==
    IF t # << >> /\ t[Len(t)] \in Whitespace
    THEN TrimEnd(SubSeq(t, 1, Len(t) - 1))
    ELSE t

Trim(t) == TrimEnd(TrimStart(t))

\* (t.match(/c/g) || []).length
CountChar(t, c) == Cardinality({i \in 1..Len(t) : t[i] = c})

\* String.prototype.split with a one-character separator
RECURSIVE Split(_, _)
Split(t, d) ==
    IF \A i \in 1..Len(t) : t[i] # d
    THEN << t >>
    ELSE LET i == CHOOSE k \in 1..Len(t) :
                      t[k] = d /\ \A m \in 1..(k - 1) : t[m] # d
         IN << SubSeq(t, 1, i - 1) >> \o Split(SubSeq(t, i + 1, Len(t)), d)

\* h.replace(/^["']|["']$/g, '')
StripQuotes(t) ==
    LET a == IF t # << >> /\ Head(t) = Apostrophe THEN Tail(t) ELSE t
    IN IF a # << >> /\ a[Len(a)] = Apostrophe
       THEN SubSeq(a, 1, Len(a) - 1)
       ELSE a

SampleHeader(h) == StripQuotes(Trim(h))

\* cells.map(h => h.trim().replace(...))
SampleHeaders(cells) == [i \in 1..Len(cells) |-> SampleHeader(cells[i])]

\* the cells of a row, each trimmed
Trimmed(cells) == [i \in 1..Len(cells) |-> Trim(cells[i])]

Confidence_uncapped(count) == 700 + count * 25

\* Math.min(0.95, 0.7 + (count / 10) * 0.25), in thousandths
Confidence(count) == Min(950, 700 + count * 25)

\* detectedFormat.sampleHeaders === undefined
NoHeaders == << >>

\* detectFileFormat on a file with extension ext whose first line is
\* firstLine; readable: readFileSync does not throw
detectFileFormat(ext, firstLine, readable) ==
    LET format == IF ext = "txt" THEN "txt" ELSE "csv"
        confidence == IF ext = "csv" THEN 700 ELSE 500
        tabCount == CountChar(firstLine, Tab)
        commaCount == CountChar(firstLine, Comma)
        byTab == tabCount > 0 /\ tabCount >= commaCount
        delimiter == IF byTab THEN Tab ELSE Comma
    IN IF readable
       THEN [format |-> format,
             delimiter |-> delimiter,
             hasHeaders |-> TRUE,
             sampleHeaders |->
                 SampleHeaders(Split(firstLine, delimiter)),
             confidence |-> IF byTab THEN Confidence(tabCount)
                            ELSE IF commaCount > 0
                                 THEN Confidence(commaCount)
                                 ELSE confidence]
       ELSE [format |-> format, delimiter |-> Comma, hasHeaders |-> TRUE,
             sampleHeaders |-> NoHeaders, confidence |-> 500]

\* `if (userDelimiter) { detectedFormat.delimiter = userDelimiter }`
WithUserDelimiter(detected, userDelimiter) ==
    IF userDelimiter # ""
    THEN [detected EXCEPT !.delimiter = userDelimiter]
    ELSE detected

\* createDynamicSchema: the fieldName of a header
Alnum ==
    {"a", "b", "c", "d", "e", "i", "l", "m", "n", "o", "s", "t", "v",
     "1", "2", "3"}

Underscored(t) ==
    [i \in 1..Len(t) |-> IF LowerChar(t[i]) \in Alnum THEN LowerChar(t[i])
                         ELSE "_"]

RECURSIVE Collapse(_)
Collapse(t) ==
    IF Len(t) < 2 THEN t
    ELSE IF t[1] = "_" /\ t[2] = "_" THEN Collapse(Tail(t))
         ELSE << t[1] >> \o Collapse(Tail(t))

StripUnderscores(t) ==
    LET a == IF t # << >> /\ Head(t) = "_" THEN Tail(t) ELSE t
    IN IF a # << >> /\ a[Len(a)] = "_"
       THEN SubSeq(a, 1, Len(a) - 1)
       ELSE a

FieldName(header) == StripUnderscores(Collapse(Underscored(header)))

createDynamicSchema(headers) ==
    [name |-> "dynamic", hasHeaders |-> TRUE,
     columns |-> [i \in 1..Len(headers) |->
                    [columnName |-> headers[i],
                     fieldName |-> FieldName(headers[i]),
                     type |-> "string"]]]

\* values that are not text: null, undefined and the boolean true (a text
\* has one character per element, so none of these is a text)
Null == << "null" >>
Undefined == << "undefined" >>
True == << "true" >>

Id == << "i", "d" >>
Name == << "n", "a", "m", "e" >>
IsActive == << "i", "s", "A", "c", "t", "i", "v", "e" >>

\* defaultSchema, less the columns that have no default, are not required
\* and are named by no header of the files below (transformRow passes over
\* them), and less the nested groups, none of whose columns is a header
defaultSchema ==
    [name |-> "default", hasHeaders |-> TRUE,
     columns |->
        << [columnName |-> Id, fieldName |-> Id, type |-> "string"],
           [columnName |-> Name, fieldName |-> Name, type |-> "string",
            required |-> TRUE],
           [columnName |-> << "i", "s", "_", "a", "c", "t", "i", "v", "e" >>,
            fieldName |-> IsActive, type |-> "boolean",
            defaultValue |-> True],
           [columnName |-> << "a", "c", "t", "i", "v", "e" >>,
            fieldName |-> IsActive, type |-> "boolean",
            defaultValue |-> True] >>]

\* the schema processParseJob chooses
SchemaFor(detected, useDynamicSchema, static) ==
    IF useDynamicSchema /\ detected.sampleHeaders # NoHeaders
    THEN createDynamicSchema(detected.sampleHeaders)
    ELSE static

\* a file is the sequence of its lines
HasChars(line) == line # << >>

countRecords_withHeader(lines, delimiter) == Len(SelectSeq(lines, HasChars))

\* countRecords: the tokenizer skips the empty lines and does not trim; the
\* first record is passed over as the header
countRecords(lines, delimiter) ==
    LET n == Len(SelectSeq(lines, HasChars))
    IN IF n = 0 THEN 0 ELSE n - 1

\* a row of the tokenizer of parseCSVStream: the line split on the delimiter
\* of the parse options, each field trimmed (trim: true)
Row(line, delimiter) == Trimmed(Split(line, delimiter))

NotBlank(line) == Trim(line) # << >>

\* the rows parser.read() returns: with trim, a line of white space has no
\* field and is skipped as an empty line
Rows(lines, delimiter) ==
    LET kept == SelectSeq(lines, NotBlank)
    IN [i \in 1..Len(kept) |-> Row(kept[i], delimiter)]

HeaderRow(firstLine, delimiter) == Row(firstLine, delimiter)

\* headerMap.set(header.toLowerCase().trim(), index): a later header of the
\* same name replaces the index
HeaderKey(header) == Trim(ToLowerCase(header))

HeaderMap(row) ==
    [h \in {HeaderKey(row[i]) : i \in 1..Len(row)} |->
        CHOOSE i \in 1..Len(row) :
            /\ HeaderKey(row[i]) = h
            /\ \A k \in (i + 1)..Len(row) : HeaderKey(row[k]) # h]

\* headerMap === null
NoMap == << >>

\* column.defaultValue, column.required and column.type; an absent
\* property is undefined, which is not true, and the type is then 'string'
DefaultValue(column) ==
    IF "defaultValue" \in DOMAIN column THEN column.defaultValue
    ELSE Undefined

Required(column) == "required" \in DOMAIN column /\ column.required

TypeOf(column) == IF "type" \in DOMAIN column THEN column.type ELSE "string"

\* defaultValue ?? null
OrNull(defaultValue) ==
    IF defaultValue = Undefined THEN Null ELSE defaultValue

Digit == {"0", "1", "2", "3"}

\* the longest prefix of t made of digits
RECURSIVE Digits(_)
Digits(t) ==
    IF t # << >> /\ Head(t) \in Digit
    THEN << Head(t) >> \o Digits(Tail(t))
    ELSE << >>

\* trimmed.replace(/,/g, '')
RECURSIVE WithoutCommas(_)
WithoutCommas(t) ==
    IF t = << >> THEN << >>
    ELSE (IF Head(t) = Comma THEN << >> ELSE << Head(t) >>)
            \o WithoutCommas(Tail(t))

NaN == << "NaN" >>

\* parseFloat on a text of digits, '.', '-' and other characters: the
\* longest prefix that is a decimal literal, or NaN.  A number is the tag
\* "number" followed by that literal.
parseFloat(t) ==
    LET minus == t # << >> /\ Head(t) = "-"
        body == IF minus THEN Tail(t) ELSE t
        int == Digits(body)
        rest == SubSeq(body, Len(int) + 1, Len(body))
        dot == rest # << >> /\ Head(rest) = "."
        frac == IF dot THEN Digits(Tail(rest)) ELSE << >>
    IN IF int = << >> /\ frac = << >> THEN NaN
       ELSE << "number" >> \o (IF minus THEN << "-" >> ELSE << >>) \o int
               \o (IF dot THEN << "." >> \o frac ELSE << >>)

NumberOrDefault_unchecked(num, defaultValue) == num

\* isNaN(num) ? (defaultValue ?? null) : num
NumberOrDefault(num, defaultValue) ==
    IF num = NaN THEN OrNull(defaultValue) ELSE num

False == << "false" >>

TrueWords_short == {<< "y", "e", "s" >>, << "1" >>, << "y" >>, << "t" >>}

TrueWords ==
    {<< "t", "r", "u", "e" >>, << "y", "e", "s" >>, << "1" >>, << "y" >>,
     << "t" >>}

FalseWords ==
    {<< "f", "a", "l", "s", "e" >>, << "n", "o" >>, << "0" >>, << "n" >>,
     << "f" >>}

\* new Date(trimmed) is a valid date: what the engine makes of the text is
\* an input of the call
ValidDate(trimmed) == call.validDate

\* a JSON number: -? (0 | [1-9][0-9]*) (. [0-9]+)?
JsonNumber(t) ==
    LET minus == t # << >> /\ Head(t) = "-"
        body == IF minus THEN Tail(t) ELSE t
        int == Digits(body)
        rest == SubSeq(body, Len(int) + 1, Len(body))
    IN /\ int # << >>
       /\ Len(int) > 1 => Head(int) # "0"
       /\ \/ rest = << >>
          \/ /\ Head(rest) = "."
             /\ Len(rest) > 1
             /\ Digits(Tail(rest)) = Tail(rest)

\* JSON.parse on a text without quotes, brackets and braces: a number, true,
\* false or null; anything else throws.  A parsed number is the tag "json"
\* followed by its text.
JsonThrows == << "SyntaxError" >>

JsonParse(t) ==
    IF JsonNumber(t) THEN << "json" >> \o t
    ELSE IF t = << "t", "r", "u", "e" >> THEN True
    ELSE IF t = << "f", "a", "l", "s", "e" >> THEN False
    ELSE IF t = << "n", "u", "l", "l" >> THEN Null
    ELSE JsonThrows

\* the boolean of a lower-cased word
BooleanOrDefault(lower, defaultValue) ==
    IF lower \in TrueWords THEN True
    ELSE IF lower \in FalseWords THEN False
    ELSE OrNull(defaultValue)

\* try { return JSON.parse(trimmed) } catch { return defaultValue ?? null }
JsonOrDefault(parsed, defaultValue) ==
    IF parsed = JsonThrows THEN OrNull(defaultValue) ELSE parsed

\* convertValue, after const trimmed = value.trim()
ConvertTrimmed(trimmed, type, defaultValue) ==
    IF trimmed = << >> THEN OrNull(defaultValue)
    ELSE CASE type = "string" -> trimmed
           [] type = "number" ->
                NumberOrDefault(parseFloat(WithoutCommas(trimmed)),
                                defaultValue)
           [] type = "boolean" ->
                BooleanOrDefault(ToLowerCase(trimmed), defaultValue)
           [] type = "date" ->
                IF ValidDate(trimmed) THEN << "date" >> \o trimmed
                ELSE OrNull(defaultValue)
           [] type = "json" -> JsonOrDefault(JsonParse(trimmed), defaultValue)
           [] OTHER -> trimmed

\* convertValue
convertValue(value, type, defaultValue) ==
    ConvertTrimmed(Trim(value), type, defaultValue)

\* column.transform: the schema names the function it carries.  "toNull"
\* returns null, "mark" returns another value that is not null, "throws"
\* throws.
HasTransform(column) == "transform" \in DOMAIN column

Thrown == << "thrown" >>

CallTransform(transform, value) ==
    CASE transform = "toNull" -> Null
      [] transform = "mark" -> << "transformed" >> \o value
      [] transform = "throws" -> Thrown

\* the value of a column the header names: the converted cell, replaced by
\* the result of the transform when there is one, the value is not null and
\* the transform returns; threw tells that it threw
WithTransform(column, rawValue, value) ==
    LET called == HasTransform(column) /\ value # Null
        result == IF called THEN CallTransform(column.transform, value)
                  ELSE value
    IN [value |-> IF result = Thrown THEN value ELSE result,
        threw |-> result = Thrown,
        rawValue |-> rawValue]

\* row[index] || ''
RawValue(row, index) == IF index <= Len(row) THEN row[index] ELSE << >>

Converted(column, rawValue) ==
    WithTransform(column, rawValue,
                  convertValue(rawValue, TypeOf(column), DefaultValue(column)))

ColumnValue(column, row, index) == Converted(column, RawValue(row, index))

TransformError(column, rawValue) ==
    [line |-> 0, column |-> column.columnName, recoverable |-> TRUE,
     rawValue |-> rawValue, message |-> "Transform error"]

Assign_always(record, fieldName, value) == (fieldName :> value) @@ record

Assign_keepFirst(record, fieldName, value) ==
    IF value # Null THEN record @@ (fieldName :> value) ELSE record

\* if (value !== null) record[column.fieldName] = value
Assign(record, fieldName, value) ==
    IF value # Null THEN (fieldName :> value) @@ record ELSE record

\* the end of a turn for a column the header names: v is its value
AssignColumn(acc, column, v) ==
    [record |-> Assign(acc.record, column.fieldName, v.value),
     errors |->
        IF v.threw
        THEN Append(acc.errors, TransformError(column, v.rawValue))
        ELSE acc.errors]

\* one turn of the loop of transformRow over schema.columns; acc is the
\* record and the errors so far.  Indices count from 1.
TransformColumn(acc, column, row, headerMap) ==
    LET key == ToLowerCase(column.columnName)
        defaultValue == DefaultValue(column)
    IN IF key \notin DOMAIN headerMap
       THEN [record |->
                IF defaultValue # Undefined
                THEN (column.fieldName :> defaultValue) @@ acc.record
                ELSE acc.record,
             errors |->
                IF Required(column)
                THEN Append(acc.errors,
                            [line |-> 0, column |-> column.columnName,
                             recoverable |-> TRUE])
                ELSE acc.errors]
       ELSE AssignColumn(acc, column,
                         ColumnValue(column, row, headerMap[key]))

RECURSIVE TransformColumns(_, _, _, _)
TransformColumns(acc, columns, row, headerMap) ==
    IF columns = << >> THEN acc
    ELSE TransformColumns(TransformColumn(acc, Head(columns), row, headerMap),
                          Tail(columns), row, headerMap)

NoFields == << >>

\* the end of a turn for a sub-column the header names: v is its value
AssignNested(acc, column, v) ==
    [nestedObj |-> Assign(acc.nestedObj, column.fieldName, v.value),
     hasValue |-> acc.hasValue \/ v.value # Null,
     errors |->
        IF v.threw
        THEN Append(acc.errors, TransformError(column, v.rawValue))
        ELSE acc.errors]

\* one turn of the loop over nested.columns; acc is nestedObj, hasValue and
\* the errors so far
NestedColumn(acc, column, row, headerMap) ==
    LET key == ToLowerCase(column.columnName)
        defaultValue == DefaultValue(column)
    IN IF key \notin DOMAIN headerMap
       THEN IF defaultValue # Undefined
            THEN [acc EXCEPT
                    !.nestedObj = (column.fieldName :> defaultValue)
                                     @@ acc.nestedObj,
                    !.hasValue = TRUE]
            ELSE acc
       ELSE AssignNested(acc, column,
                         ColumnValue(column, row, headerMap[key]))

RECURSIVE NestedColumns(_, _, _, _)
NestedColumns(acc, columns, row, headerMap) ==
    IF columns = << >> THEN acc
    ELSE NestedColumns(NestedColumn(acc, Head(columns), row, headerMap),
                       Tail(columns), row, headerMap)

\* a sub-record as the value of a field of the parent record
Object(nestedObj) == << "object", nestedObj >>

IncludeGroup_always(acc, nested, sub) ==
    [record |-> (nested.fieldName :> Object(sub.nestedObj)) @@ acc.record,
     errors |-> sub.errors]

\* if (hasValue) record[nested.fieldName] = nestedObj
IncludeGroup(acc, nested, sub) ==
    [record |->
        IF sub.hasValue
        THEN (nested.fieldName :> Object(sub.nestedObj)) @@ acc.record
        ELSE acc.record,
     errors |-> sub.errors]

\* one turn of the loop over schema.nestedFields
NestedGroup(acc, nested, row, headerMap) ==
    IncludeGroup(acc, nested,
                 NestedColumns([nestedObj |-> NoFields, hasValue |-> FALSE,
                                errors |-> acc.errors],
                               nested.columns, row, headerMap))

RECURSIVE NestedGroups(_, _, _, _)
NestedGroups(acc, groups, row, headerMap) ==
    IF groups = << >> THEN acc
    ELSE NestedGroups(NestedGroup(acc, Head(groups), row, headerMap),
                      Tail(groups), row, headerMap)

\* schema.nestedFields, which a schema may leave out
NestedFields(schema) ==
    IF "nestedFields" \in DOMAIN schema THEN schema.nestedFields ELSE << >>

\* transformRow
transformRow(row, headerMap, schema) ==
    NestedGroups(TransformColumns([record |-> NoFields, errors |-> << >>],
                                  schema.columns, row, headerMap),
                 NestedFields(schema), row, headerMap)

\* errors.forEach(e => (e.line = lineNumber))
WithLine(errors, lineNumber) ==
    [i \in 1..Len(errors) |-> [errors[i] EXCEPT !.line = lineNumber]]

\* ======================= properties =======================

HasDoc(j) == reg[j].status # "absent"

\* a step appends a record to the batch of job j
Appends(j) ==
    /\ batch'[j] # << >>
    /\ batch[j] = << >> \/ batch'[j][Len(batch'[j])] # batch[j][Len(batch[j])]

\* C1: once the registry document of a job is 'completed' or 'failed', no
\* later update of the document changes its status.
C1_TerminalStatusIsFinal ==
    [][\A j \in Jobs :
         (reg[j].status \in Terminal /\ reg'[j].status # "absent")
            => reg'[j].status = reg[j].status]_vars

\* C2: the status of a job document only moves queued -> processing ->
\* completed | failed, never from queued to a terminal state, and no
\* document carries completedAt and failedAt together.
StatusStep(a, b) ==
    \/ a = b
    \/ a = "queued" /\ b = "processing"
    \/ a = "processing" /\ b \in Terminal

C3_OnePipelineAtATime ==
    \A j, k \in Jobs : (j # k /\ wpc[j] \in Exec) => ~InScope(k)

\* C4: jobs start in the order in which they were pushed, and a job starts
\* only after every job pushed before it has returned.
IsPrefix(a, b) == Len(a) <= Len(b) /\ \A i \in 1..Len(a) : a[i] = b[i]

C4_Fifo ==
    /\ IsPrefix(startLog, pushLog)
    /\ \A i \in 1..Len(startLog) :
         i < Len(startLog) => startLog[i] \in Returned

C4_Witness ==
    /\ Len(startLog) = 2
    /\ startLog[1] \in Returned
    /\ wpc[startLog[2]] \in Exec

\* C5: an API job that was submitted while an earlier API job was queued or
\* running stays 'queued', with queuePosition >= 1, for as long as the
\* earlier job's document is not 'completed' or 'failed'.
C5_SecondWaitsForFirst ==
    \A a, b \in Jobs :
        (/\ a \in ahead[b] /\ isApi[a] /\ isApi[b]
         /\ HasDoc(a) /\ HasDoc(b)
         /\ timer[a] = "armed" /\ timer[b] = "armed"
         /\ reg[a].status \notin Terminal)
        => (reg[b].status = "queued" /\ reg[b].queuePosition >= 1)

C8_BatchCeiling ==
    /\ [](\A j \in Jobs : Len(batch[j]) <= 2 * BATCH_SIZE)
    /\ [][\A j \in Jobs :
            (Len(batch[j]) >= 2 * BATCH_SIZE /\ Appends(j))
               => Len(batch'[j]) = 1]_vars

C8_Witness ==
    \E j \in Jobs :
        /\ recordCount[j] = 2 * BATCH_SIZE + 1
        /\ Len(batch[j]) = 1
        /\ ~useDatabase

\* C9 as claimed: after every flush call (size/time, forced, final) the
\* batch is empty, whatever the outcome of the store call.
FlushReturns(j) == cpc[j] = "flush" /\ cpc'[j] = "none"
ForcedReturns(j) == cpc[j] = "forced" /\ cpc'[j] # "forced"
FinalReturns(j) == wpc[j] = "final" /\ wpc'[j] # "final"

FlushDue(j) ==
    \/ Len(batch'[j]) >= BATCH_SIZE
    \/ /\ Len(batch'[j]) > 0
       /\ timeSinceLastInsert'[j] >= BATCH_FLUSH_INTERVAL_MS

C10_FlushIffDue ==
    [][\A j \in Jobs : Appends(j) => (cpc'[j] = "flush" <=> FlushDue(j))]_vars

\* C10 as amended: with the store enabled, a flush is started after an
\* append if and only if the condition holds; with the store disabled no
\* flush is ever started.
C10_FlushIffDueAndEnabled ==
    [][\A j \in Jobs :
         Appends(j) => (cpc'[j] = "flush" <=> (useDatabase /\ FlushDue(j)))]_vars

\* a flush started by time alone, below the size threshold
C10_Witness ==
    \E j \in Jobs :
        /\ cpc[j] = "flush"
        /\ Len(batch[j]) < BATCH_SIZE
        /\ timeSinceLastInsert[j] >= BATCH_FLUSH_INTERVAL_MS

\* C11: with soft threshold 2, hard ceiling 4 and a store adapter whose
\* every write fails, every flush attempt leaves the batch empty, no flush
\* is handed more than 4 records, parsing goes on after every failed flush,
\* and the job ends 'completed' with a count equal to the number of
\* non-empty rows read.
FlushInFlight(j) == cpc[j] \in {"flush", "forced"} \/ wpc[j] = "final"

Completes(j) == wpc[j] # "completed" /\ wpc'[j] = "completed"

C11_FlushesEmptyTheBatch ==
    [][\A j \in Jobs :
         /\ FlushReturns(j) => batch'[j] = << >>
         /\ FinalReturns(j) => batch'[j] = << >>]_vars

C11_FlushesAreBounded ==
    \A j \in Jobs : FlushInFlight(j) => Len(batch[j]) <= 4

C11_ParsingGoesOn ==
    [][\A j \in Jobs :
         (FlushReturns(j) /\ wpc[j] = "parse")
            => (wpc'[j] = "parse" /\ unread'[j] = unread[j]
                /\ reg'[j].status # "failed")]_vars

C11_EndsCompleted ==
    /\ [][\A j \in Jobs :
            (Completes(j) /\ isApi[j])
               => (reg'[j].status = "completed"
                   /\ reg'[j].current = recordCount[j])]_vars
    /\ [](\A j \in Jobs :
            (wpc[j] = "completed" /\ isApi[j] /\ timer[j] = "armed")
               => reg[j].status = "completed")

C11_StoreAlwaysFails ==
    /\ BATCH_SIZE = 2 /\ MAX_BATCH_SIZE = 4
    /\ C11_FlushesEmptyTheBatch
    /\ [] C11_FlushesAreBounded
    /\ C11_ParsingGoesOn
    /\ C11_EndsCompleted

\* C12: within a job the records given to the store adapter, over all flush
\* calls in call order, are in input row order, and no flush call of one job
\* falls between two flush calls of another job.
CallsStore(j) ==
    \/ cpc[j] = "none" /\ cpc'[j] # "none"
    \/ cpc[j] = "forced" /\ cpc'[j] = "flush"
    \/ wpc[j] = "parse" /\ wpc'[j] = "final"

Ascending(b) == \A i \in 1..(Len(b) - 1) : b[i] < b[i + 1]

C12_RowOrder ==
    [][\A j \in Jobs :
         CallsStore(j)
            => (Ascending(batch'[j]) /\ batch'[j][1] >= handed[j])]_vars

C12_NotInterleaved ==
    [][\A j \in Jobs :
         (CallsStore(j) /\ handed[j] > 0) => lastFlusher = j]_vars

C12_OrderedFlushes == C12_RowOrder /\ C12_NotInterleaved

\* C13: parseCSVStream has at most one onRecord invocation in flight: the
\* callback of the next row is not started before the promise of the
\* current row's callback has settled, also when 'readable' events fire
\* while the callback is awaited.
StartsCallback(j) == recordCount'[j] = recordCount[j] + 1

C13_OneCallbackInFlight ==
    [][\A j \in Jobs : StartsCallback(j) => cpc[j] = "none"]_vars

\* the end-of-input 'readable' event has fired, a callback is awaited and
\* rows are waiting in the buffer
C13_Witness ==
    \E j \in Jobs :
        /\ ended[j]
        /\ cpc[j] = "flush"
        /\ unread[j] > 0
        /\ recordCount[j] >= 1

\* C14: the registry entry of a job is evicted exactly once, a fixed
\* duration after the job reached 'completed' or 'failed'; an entry is
\* never evicted while its job is 'queued' or 'processing'.
Evicted(j) == HasDoc(j) /\ reg'[j].status = "absent"

C14_EvictedAfterTerminal ==
    [][\A j \in Jobs :
         Evicted(j)
            => (reg[j].status \in Terminal /\ wpc[j] \in Returned)]_vars

\* C15: once the registry entry of a job has been evicted, every later
\* lookup of the job id finds nothing: no later operation puts an entry for
\* the id back into the registry.
C15_EvictedStaysAbsent ==
    \A j \in Jobs : timer[j] = "fired" => reg[j].status = "absent"

\* C16: over the lifetime of a job document the progress percentage and the
\* 'current' counter never decrease from one registry update to the next,
\* and current <= total in every update once the total is known.
SameDoc(j) == HasDoc(j) /\ reg'[j].status # "absent" /\ timer[j] = "armed"

C16_ProgressMonotonic ==
    [][\A j \in Jobs :
         SameDoc(j)
            => (/\ reg'[j].progress >= reg[j].progress
                /\ reg'[j].current >= reg[j].current
                /\ reg'[j].current <= reg'[j].total)]_vars

\* C17: the number of records the pipeline emits is at most the total of
\* the count pre-pass, and the final count of the job equals the number of
\* onRecord invocations, which is the number of rows whose record is not
\* empty.
C17_CountMatches ==
    /\ [](\A j \in Jobs : recordCount[j] <= rows[j])
    /\ [](\A j \in Jobs : recordCount[j] = nonEmptyRows[j])
    /\ [][\A j \in Jobs :
            (Completes(j) /\ isApi[j])
               => (/\ reg'[j].current = nonEmptyRows[j]
                   /\ reg'[j].current <= reg'[j].total)]_vars

\* a completed job with a skipped row: the count is below the total
C17_Witness ==
    \E j \in Jobs :
        /\ wpc[j] = "completed"
        /\ reg[j].status = "completed"
        /\ reg[j].current >= 1
        /\ reg[j].current < reg[j].total
        /\ reg[j].current = nonEmptyRows[j]

\* C21: GET /api/result/:jobId returns the result document only when the
\* status of the job is 'completed'; for a known job in any other status it
\* returns an error carrying the current status and progress; for an unknown
\* or expired job id it returns not-found.
Expired(j) == timer[j] = "fired"

Unknown(j) == timer[j] = "none"

C21_KnownJob ==
    \A j \in Jobs :
        timer[j] = "armed"
           => LET response == GetResult(reg, j) IN
              IF reg[j].status = "completed"
              THEN response.code = 200 /\ response.result >= 0
              ELSE /\ response.code = 400
                   /\ response.status = reg[j].status
                   /\ response.status \in {"queued", "processing", "failed"}
                   /\ response.progress = reg[j].progress
                   /\ response.progress \in 0..100

C21_NotFound ==
    \A j \in Jobs :
        Expired(j) \/ Unknown(j) => GetResult(reg, j).code = 404

\* C21: the three answers of GET /api/result/:jobId together
C21_ResultByStatus == C21_KnownJob /\ C21_NotFound

\* C23: with the database disabled the store adapter is never called during
\* a job, and the job still parses every row and completes with a count
\* equal to the number of non-empty records.
InStore(j) == cpc[j] # "none" \/ wpc[j] \in {"ensure", "final"}

C23_NoStoreWithoutDatabase ==
    /\ [](~useDatabase => \A j \in Jobs : ~InStore(j))
    /\ [][~useDatabase =>
            \A j \in Jobs :
               Completes(j)
                  => (/\ unread[j] = 0
                      /\ recordCount[j] = nonEmptyRows[j]
                      /\ isApi[j] /\ timer'[j] = "armed"
                            => (/\ reg'[j].status = "completed"
                                /\ reg'[j].current = nonEmptyRows[j]
                                /\ reg'[j].result = nonEmptyRows[j]))]_vars
    /\ [](~useDatabase =>
            \A j \in Jobs :
               (wpc[j] = "completed" /\ isApi[j] /\ timer[j] = "armed")
                  => reg[j].status = "completed")

\* without the database a job of several rows, one of them empty, is done
C23_Witness ==
    \E j \in Jobs :
        /\ ~useDatabase
        /\ wpc[j] = "completed"
        /\ reg[j].status = "completed"
        /\ rows[j] >= 2
        /\ reg[j].result = rows[j] - 1

\* C26: a structural error of the tokenizer or of the input stream makes
\* parseCSVStream reject, and the job ends with the status 'failed' and an
\* error message, never 'completed'; no record callback of the job runs
\* after the job has been marked failed.
ParseFails(j) == wpc[j] = "parse" /\ wpc'[j] = "failed"

CallbackRuns(j) == StartsCallback(j) \/ (cpc[j] # "none" /\ cpc'[j] # cpc[j])

C26_ErrorMarksFailed ==
    [][\A j \in Jobs :
         (ParseFails(j) /\ isApi[j])
            => (reg'[j].status = "failed" /\ reg'[j].error)]_vars

C26_StaysFailed ==
    \A j \in Jobs :
        (wpc[j] = "failed" /\ isApi[j] /\ timer[j] = "armed")
           => reg[j].status = "failed"

C26_NoCallbackAfterFailed ==
    [][\A j \in Jobs : wpc[j] = "failed" => ~CallbackRuns(j)]_vars

\* C26: the three parts together
C26_StructuralErrorFailsJob ==
    /\ C26_ErrorMarksFailed
    /\ [] C26_StaysFailed
    /\ C26_NoCallbackAfterFailed

\* ---- one job on one file: detectFileFormat, the caller's delimiter,
\* countRecords, the schema, and the rows read by parseCSVStream ----
Lines == UNION {[1..n -> Chars] : n \in 0..MaxLineLen}

Alice == << "A", "l", "i", "c", "e" >>
Bob == << "B", "o", "b" >>
IdName == Id \o << Comma >> \o Name
OneAlice == << "1", Comma >> \o Alice
TwoBob == << "2", Comma >> \o Bob
ThreeNothing == << "3", Comma >>

Headers == {IdName, Name \o << Tab >> \o Id}

DataLines == {OneAlice, TwoBob, ThreeNothing, << >>, << Comma >>,
              << Space, "1", Tab, Space >> \o Bob}

Rests == UNION {[1..n -> DataLines] : n \in 0..MaxDataRows}

\* a schema of two text columns, of which name is required
requiredName ==
    [name |-> "required-name", hasHeaders |-> TRUE,
     columns |->
        << [columnName |-> Id, fieldName |-> Id, type |-> "string"],
           [columnName |-> Name, fieldName |-> Name, type |-> "string",
            required |-> TRUE] >>]

\* first lines with so many delimiters that the confidence is capped
ManyCommas == [i \in 1..ManyCount |-> Comma]
ManyTabs == [i \in 1..ManyCount |-> Tab] \o << "a", Comma >>

Files ==
    {<< l >> : l \in Lines}
       \cup {<< h >> \o r : h \in Headers, r \in Rests}
       \cup {<< ManyCommas >>, << ManyTabs >>}

Uploaded ==
    [stage : {"uploaded"}, ext : {"csv", "txt"}, lines : Files,
     readable : BOOLEAN, userDelimiter : {"", Comma, Tab},
     useDynamicSchema : BOOLEAN, static : {defaultSchema, requiredName},
     detected : {NoCall}, total : {0}, schema : {NoCall},
     unread : {<< >>}, headerMap : {NoMap}, lineNumber : {0},
     recordCount : {0}, records : {<< >>}, errors : {<< >>},
     lastProgressSent : {-1}, progress : {-1}, sample : {<< >>},
     result : {NoCall}]

DetectInit == ServerInit({<< 0, 0 >>}) /\ useDatabase /\ call \in Uploaded

\* let detectedFormat = detectFileFormat(filePath)
Detect ==
    /\ call.stage = "uploaded"
    /\ call' = [call EXCEPT
                  !.stage = "detected",
                  !.detected = detectFileFormat(call.ext, call.lines[1],
                                                call.readable)]
    /\ UNCHANGED serverVars

\* if (userDelimiter) ...
Override ==
    /\ call.stage = "detected"
    /\ call' = [call EXCEPT
                  !.stage = "overridden",
                  !.detected = WithUserDelimiter(call.detected,
                                                 call.userDelimiter)]
    /\ UNCHANGED serverVars

\* const totalRecordCount = await countRecords(filePath, delimiter)
Count ==
    /\ call.stage = "overridden"
    /\ call' = [call EXCEPT
                  !.stage = "counted",
                  !.total = countRecords(call.lines,
                                         call.detected.delimiter)]
    /\ UNCHANGED serverVars

\* "Determine which schema to use", and parseCSVStream pipes the file into
\* the tokenizer
ChooseSchema ==
    /\ call.stage = "counted"
    /\ call' = [call EXCEPT
                  !.stage = "parsing",
                  !.schema = SchemaFor(call.detected, call.useDynamicSchema,
                                       call.static),
                  !.unread = Rows(call.lines, call.detected.delimiter)]
    /\ UNCHANGED serverVars

\* the progress the record callback sends for the record numbered rc
Sent(rc, total, lps, progress) ==
    IF total > 0
    THEN LET p == ProgressPercent(rc, total) IN
         IF p # lps \/ rc % 1000 = 0
         THEN [lps |-> p, progress |-> p]
         ELSE [lps |-> lps, progress |-> progress]
    ELSE IF rc % 1000 = 0
         THEN [lps |-> lps, progress |-> 0]
         ELSE [lps |-> lps, progress |-> progress]

\* "Collect sample records": the callback keeps a copy of the record while
\* the sample is short of SAMPLE_LIMIT (20 in the source)
SampleAfter_all(sample, record) == Append(sample, record)

SampleAfter(sample, record) ==
    IF Len(sample) < SAMPLE_LIMIT THEN Append(sample, record) ELSE sample

\* schema.hasHeaders !== false
HasHeaders(schema) == "hasHeaders" \notin DOMAIN schema \/ schema.hasHeaders

FirstRowIsHeader_never(schema, headerMap) == FALSE

\* schema.hasHeaders !== false && headerMap === null
FirstRowIsHeader(schema, headerMap) ==
    HasHeaders(schema) /\ headerMap = NoMap

\* index.toString(), for the indices of the rows of the model
IndexText(index) ==
    << CASE index = 0 -> "0"
         [] index = 1 -> "1"
         [] index = 2 -> "2"
         [] OTHER -> "3" >>

\* headerMap.set(header.toLowerCase(), index) over schema.customHeaders: a
\* later header of the same name replaces the index
CustomMap(headers) ==
    [h \in {ToLowerCase(headers[i]) : i \in 1..Len(headers)} |->
        CHOOSE i \in 1..Len(headers) :
            /\ ToLowerCase(headers[i]) = h
            /\ \A k \in (i + 1)..Len(headers) : ToLowerCase(headers[k]) # h]

\* headerMap.set(index.toString(), index) over the cells of the row; the
\* source counts the cells from 0, the model from 1
PositionalMap(row) ==
    [h \in {IndexText(i - 1) : i \in 1..Len(row)} |->
        CHOOSE i \in 1..Len(row) : IndexText(i - 1) = h]

\* "If no headers in file, use custom headers or column indices"
SynthesizedMap(schema, row) ==
    IF "customHeaders" \in DOMAIN schema
    THEN CustomMap(schema.customHeaders)
    ELSE PositionalMap(row)

\* the header map a data row is transformed with
MapFor(schema, headerMap, row) ==
    IF headerMap = NoMap THEN SynthesizedMap(schema, row) ELSE headerMap

\* one turn of the loop of processRows: the header row, a row whose record
\* is empty, or a row whose record goes to the callback
ProcessRow ==
    /\ call.stage = "parsing"
    /\ call.unread # << >>
    /\ LET row == Head(call.unread)
           lineNumber == call.lineNumber + 1
           map == MapFor(call.schema, call.headerMap, row)
           t == transformRow(row, map, call.schema)
           count == call.recordCount + 1
           sent == Sent(count, call.total, call.lastProgressSent,
                        call.progress)
       IN call' =
            IF FirstRowIsHeader(call.schema, call.headerMap)
            THEN [call EXCEPT !.unread = Tail(call.unread),
                              !.lineNumber = lineNumber,
                              !.headerMap = HeaderMap(row)]
            ELSE IF Skipped(DOMAIN t.record # {})
            THEN [call EXCEPT !.unread = Tail(call.unread),
                              !.lineNumber = lineNumber,
                              !.headerMap = map,
                              !.errors = WithLine(t.errors, lineNumber)]
            ELSE [call EXCEPT !.unread = Tail(call.unread),
                              !.lineNumber = lineNumber,
                              !.headerMap = map,
                              !.errors = WithLine(t.errors, lineNumber),
                              !.recordCount = count,
                              !.records =
                                  Append(call.records,
                                         [record |-> t.record,
                                          lineNumber |-> lineNumber]),
                              !.sample = SampleAfter(call.sample, t.record),
                              !.lastProgressSent = sent.lps,
                              !.progress = sent.progress]
    /\ UNCHANGED serverVars

\* the stream ends: "Send final progress and result"
EndParse ==
    /\ call.stage = "parsing"
    /\ call.unread = << >>
    /\ call' = [call EXCEPT
                  !.stage = "completed",
                  !.progress = 100,
                  !.result =
                      [done |-> TRUE, count |-> call.recordCount,
                       sample |-> call.sample,
                       format |-> call.detected.format,
                       delimiter |->
                           IF call.detected.delimiter = Tab THEN "tab"
                           ELSE call.detected.delimiter]]
    /\ UNCHANGED serverVars

DetectNext ==
    Detect \/ Override \/ Count \/ ChooseSchema \/ ProcessRow \/ EndParse

DetectSpec == DetectInit /\ [][DetectNext]_vars

\* ---- parseCSVStream on the rows of the tokenizer, for schemas with and
\* without a header row ----
XY == << [columnName |-> << "a" >>, fieldName |-> << "x" >>,
          type |-> "string"],
         [columnName |-> << "b" >>, fieldName |-> << "y" >>,
          type |-> "number"] >>

XYDefault ==
    << [columnName |-> << "a" >>, fieldName |-> << "x" >>, type |-> "string"],
       [columnName |-> << "b" >>, fieldName |-> << "y" >>, type |-> "number",
        defaultValue |-> << "default" >>] >>

ByIndex ==
    << [columnName |-> << "0" >>, fieldName |-> << "x" >>, type |-> "string"],
       [columnName |-> << "1" >>, fieldName |-> << "y" >>,
        type |-> "number"] >>

\* schemas with a header row (declared or by default) and without one (with
\* custom headers, or with the columns named by their indices)
ParseSchemas ==
    {[name |-> "headers", hasHeaders |-> TRUE, columns |-> XY],
     [name |-> "headers-default", hasHeaders |-> TRUE, columns |-> XYDefault],
     [name |-> "undeclared", columns |-> XY],
     [name |-> "custom", hasHeaders |-> FALSE,
      customHeaders |-> << << "B" >>, << "a" >> >>, columns |-> XY],
     [name |-> "positional", hasHeaders |-> FALSE, columns |-> ByIndex]}

ParseCells == {<< >>, << "1" >>, << "a" >>, << "b" >>}

ParseRows == UNION {[1..n -> ParseCells] : n \in 1..MaxRowCells}

RowLists(n) == [1..n -> ParseRows]

CommaDetected ==
    [format |-> "csv", delimiter |-> Comma, hasHeaders |-> TRUE,
     sampleHeaders |-> NoHeaders, confidence |-> 700]

Parses(n) ==
    [stage : {"parsing"}, ext : {"csv"}, lines : {<< >>},
     readable : {TRUE}, userDelimiter : {""},
     useDynamicSchema : {FALSE}, static : {NoCall},
     detected : {CommaDetected}, total : {0}, schema : ParseSchemas,
     unread : RowLists(n), headerMap : {NoMap}, lineNumber : {0},
     recordCount : {0}, records : {<< >>}, errors : {<< >>},
     lastProgressSent : {-1}, progress : {-1}, sample : {<< >>},
     result : {NoCall}]

ParseInit ==
    /\ ServerInit({<< 0, 0 >>})
    /\ useDatabase
    /\ \E n \in 0..MaxParseRows : call \in Parses(n)

ParseNext == ProcessRow \/ EndParse

ParseSpec == ParseInit /\ [][ParseNext]_vars

\* C18: a delimiter forced by the caller overrides the detection for
\* everything downstream: for a first line with commas and no tabs and the
\* tab forced, the header-to-index map and the header names of the dynamic
\* schema come from splitting the line on tabs only.
ColumnNames(schema) ==
    [i \in 1..Len(schema.columns) |-> schema.columns[i].columnName]

ForcedTabOnCommas ==
    /\ call.headerMap # NoMap
    /\ call.userDelimiter = Tab
    /\ call.readable
    /\ call.useDynamicSchema
    /\ CountChar(call.lines[1], Comma) > 0
    /\ CountChar(call.lines[1], Tab) = 0

Range(q) == {q[i] : i \in 1..Len(q)}

C18_HeaderMapSplitOnTabs ==
    ForcedTabOnCommas
       => DOMAIN call.headerMap =
             {HeaderKey(h) : h \in Range(Split(call.lines[1], Tab))}

C18_SchemaSplitOnTabs ==
    ForcedTabOnCommas
       => ColumnNames(call.schema) =
             SampleHeaders(Split(call.lines[1], Tab))

\* C18: with the tab forced on a first line of commas, both the header map
\* and the column names of the dynamic schema are the tab split of the line.
C18_ForcedDelimiterEverywhere ==
    C18_HeaderMapSplitOnTabs /\ C18_SchemaSplitOnTabs

\* the column name and the type of each column of a schema
ColumnTypes(schema) ==
    [i \in 1..Len(schema.columns) |->
        << schema.columns[i].columnName, TypeOf(schema.columns[i]) >>]

\* the file "id,name\n1,Alice\n2,Bob\n" has gone through a job whose
\* schema has the text columns id and name, with no delimiter forced
TwoRowsParsed ==
    /\ call.stage = "completed"
    /\ call.lines = << IdName, OneAlice, TwoBob >>
    /\ call.userDelimiter = ""
    /\ ColumnTypes(call.schema) = << << Id, "string" >>, << Name, "string" >> >>

RecordsOf(c) == [i \in 1..Len(c.records) |-> c.records[i].record]

\* C19: for the input "id,name\n1,Alice\n2,Bob\n" and a schema with the
\* text columns id and name, the job emits exactly the two records
\* {id:"1",name:"Alice"} and {id:"2",name:"Bob"} in that order, the counted
\* total is 2 and the final progress is 100.
C19_TwoRecords ==
    TwoRowsParsed
       => (/\ RecordsOf(call) =
                 << (Id :> << "1" >>) @@ (Name :> Alice),
                    (Id :> << "2" >>) @@ (Name :> Bob) >>
           /\ call.recordCount = 2
           /\ call.total = 2
           /\ call.progress = 100)

\* the scenario of C19 with the dynamic schema of the server
C19_Witness ==
    /\ TwoRowsParsed
    /\ call.schema.name = "dynamic"
    /\ Len(call.records) = 2
    /\ call.records[2].lineNumber = 3

\* the row "3," has just been read as line 3 under the header id,name, by
\* a schema whose column name is required and has no default
EmptyRequiredCell ==
    /\ call.stage = "parsing"
    /\ call.schema = requiredName
    /\ call.detected.delimiter = Comma
    /\ call.lines[1] = IdName
    /\ Len(call.lines) = 3
    /\ NotBlank(call.lines[2])
    /\ call.lines[3] = ThreeNothing
    /\ call.lineNumber = 3

\* line, column and recoverable flag of each error
Brief(errors) ==
    [i \in 1..Len(errors) |->
        [line |-> errors[i].line, column |-> errors[i].column,
         recoverable |-> errors[i].recoverable]]

\* C20: a row "3," at line 3 under the header id,name, where the column
\* name is required and has no default, yields the record {id:"3"} together
\* with exactly one recoverable field error of line 3 and column name, and
\* the pipeline does not fail.
C20_EmptyRequiredCellReported ==
    EmptyRequiredCell
       => (/\ call.records # << >>
           /\ call.records[Len(call.records)] =
                 [record |-> (Id :> << "3" >>), lineNumber |-> 3]
           /\ Brief(call.errors) =
                 << [line |-> 3, column |-> Name, recoverable |-> TRUE] >>
           /\ call.stage # "failed")

\* what the code does for that row: the record, and no error
C20_RecordWithoutError ==
    EmptyRequiredCell
       => (/\ call.records # << >>
           /\ call.records[Len(call.records)] =
                 [record |-> (Id :> << "3" >>), lineNumber |-> 3]
           /\ call.errors = << >>)


\* C22: the sample never holds more than SAMPLE_LIMIT records, and on
\* completion the sample of the result is exactly the first
\* min(SAMPLE_LIMIT, count) records emitted, in row order.
C22_SampleIsPrefix ==
    /\ Len(call.sample) <= SAMPLE_LIMIT
    /\ call.stage = "completed"
          => (/\ Len(call.result.sample) <= SAMPLE_LIMIT
              /\ call.result.count = Len(call.records)
              /\ call.result.sample =
                    SubSeq(RecordsOf(call), 1,
                           Min(SAMPLE_LIMIT, call.result.count)))

\* a completed job that emitted more records than the sample holds
C22_Witness ==
    /\ call.stage = "completed"
    /\ call.result.count > SAMPLE_LIMIT
    /\ Len(call.result.sample) = SAMPLE_LIMIT

\* ---- parseCSVStream on its own: the input stream piped into the
\* tokenizer, the 'readable' handler processRows, the record callback ----
\* A row is TRUE when transformRow gives it a field (the first row is the
\* header, whatever it is).  The input arrives in one or two chunks.
RowSeqs == UNION {[1..n -> BOOLEAN] : n \in 1..MaxStreamRows}

Chunked(rs) ==
    {<< rs >>} \cup
    {<< SubSeq(rs, 1, k), SubSeq(rs, k + 1, Len(rs)) >> : k \in 1..(Len(rs) - 1)}

Streams ==
    UNION {[stage : {"stream"}, rows : {rs}, source : Chunked(rs),
            maxRecords : 0..MaxCap,
            sourceEnded : {FALSE}, writableEnded : {FALSE}, eof : {FALSE},
            buffer : {<< >>}, taken : {0}, readableDue : {FALSE},
            endDue : {FALSE}, endEmitted : {FALSE}, errored : {FALSE},
            structural : {FALSE}, pc : {"idle"}, stopped : {FALSE},
            headerSeen : {FALSE}, lineNumber : {0}, recordCount : {0},
            invoked : {<< >>}, thrown : {0}, afterStop : {0},
            promise : {"pending"}] : rs \in RowSeqs}

StreamInit == ServerInit({<< 0, 0 >>}) /\ useDatabase /\ call \in Streams

\* resolve() and reject() of a settled promise do nothing
Settle(promise, outcome) == IF promise = "pending" THEN outcome ELSE promise

\* parser.end(): the tokenizer takes no more input and, once, pushes the end
\* of its output, which emits 'readable'
EndParser(c) ==
    [c EXCEPT !.writableEnded = TRUE,
              !.eof = TRUE,
              !.readableDue = c.readableDue \/ ~c.eof]

\* stream.pipe(parser): the input stream writes its next chunk; a write
\* after parser.end() makes the tokenizer emit 'error'
SourceData ==
    /\ call.stage = "stream"
    /\ call.source # << >>
    /\ ~call.errored
    /\ call' =
          IF call.writableEnded
          THEN [call EXCEPT !.source = Tail(call.source),
                            !.errored = TRUE,
                            !.promise = Settle(call.promise, "rejected")]
          ELSE [call EXCEPT !.source = Tail(call.source),
                            !.buffer = call.buffer \o Head(call.source),
                            !.readableDue = TRUE]
    /\ UNCHANGED serverVars

\* the input stream ends: pipe calls parser.end()
SourceEnd ==
    /\ call.stage = "stream"
    /\ call.source = << >>
    /\ ~call.sourceEnded
    /\ ~call.errored
    /\ call' = [EndParser(call) EXCEPT !.sourceEnded = TRUE]
    /\ UNCHANGED serverVars

\* a structural error of the tokenizer, or stream.on('error'), while input
\* is still to come: parser.on('error') rejects
StreamError ==
    /\ call.stage = "stream"
    /\ ~call.sourceEnded
    /\ ~call.writableEnded
    /\ ~call.errored
    /\ call' = [call EXCEPT !.errored = TRUE, !.structural = TRUE,
                            !.promise = Settle(call.promise, "rejected")]
    /\ UNCHANGED serverVars

\* parser.on('readable', processRows): `if (processing) return`
ReadableEvent ==
    /\ call.stage = "stream"
    /\ call.readableDue
    /\ ~call.errored
    /\ call' = [call EXCEPT !.readableDue = FALSE,
                            !.pc = IF HandlerRuns(call.pc # "idle")
                                   THEN "loop" ELSE call.pc]
    /\ UNCHANGED serverVars

\* the cap of the parse options is reached
CapReached_never(maxRecords, count) == FALSE

CapReached(maxRecords, count) == maxRecords > 0 /\ count >= maxRecords

\* one turn of `while ((row = parser.read()) !== null)`: from read() to the
\* next suspension or to the end of the handler.  A read() that leaves the
\* ended output empty schedules 'end'.
Turn(c) ==
    IF c.buffer = << >>
    THEN [c EXCEPT !.pc = "idle", !.endDue = c.endDue \/ c.eof]
    ELSE LET row == Head(c.buffer)
             lineNumber == c.lineNumber + 1
             r == [c EXCEPT !.buffer = Tail(c.buffer),
                            !.taken = c.taken + 1,
                            !.endDue = c.endDue \/
                                          (c.eof /\ Tail(c.buffer) = << >>)]
         IN IF c.stopped
            THEN [r EXCEPT !.pc = "idle", !.afterStop = c.afterStop + 1]
            ELSE IF ~c.headerSeen
            THEN [r EXCEPT !.lineNumber = lineNumber, !.headerSeen = TRUE]
            ELSE IF CapReached(c.maxRecords, c.recordCount)
            THEN [EndParser(r) EXCEPT !.lineNumber = lineNumber,
                                      !.stopped = TRUE, !.pc = "idle"]
            ELSE IF Skipped(row)
            THEN [r EXCEPT !.lineNumber = lineNumber]
            ELSE [r EXCEPT !.lineNumber = lineNumber,
                           !.recordCount = c.recordCount + 1,
                           !.invoked = Append(c.invoked, lineNumber),
                           !.pc = "await"]

\* after an 'error' the tokenizer is destroyed: a read() of the loop that is
\* still running gives a buffered row or null
Take ==
    /\ call.stage = "stream"
    /\ call.pc = "loop"
    /\ \/ call' = Turn(call)
       \/ call.errored /\ call' = [call EXCEPT !.pc = "idle"]
    /\ UNCHANGED serverVars

\* `await onRecord(record, lineNumber)` settles; a callback that throws or
\* rejects is caught and logged, and the loop goes on
AfterCallback_uncaught(c, ok) ==
    [c EXCEPT !.pc = IF ok THEN "loop" ELSE "idle",
              !.thrown = c.thrown + (IF ok THEN 0 ELSE 1)]

AfterCallback(c, ok) ==
    [c EXCEPT !.pc = "loop", !.thrown = c.thrown + (IF ok THEN 0 ELSE 1)]

CallbackSettles(ok) ==
    /\ call.stage = "stream"
    /\ call.pc = "await"
    /\ call' = AfterCallback(call, ok)
    /\ UNCHANGED serverVars

\* parser.on('end'): resolve().  'end' is emitted only when the output has
\* been read to its end.
EndEvent ==
    /\ call.stage = "stream"
    /\ call.endDue
    /\ call.buffer = << >>
    /\ ~call.endEmitted
    /\ ~call.errored
    /\ call' = [call EXCEPT !.endEmitted = TRUE,
                            !.promise = Settle(call.promise, "resolved")]
    /\ UNCHANGED serverVars

StreamNext ==
    \/ SourceData
    \/ SourceEnd
    \/ StreamError
    \/ ReadableEvent
    \/ Take
    \/ \E ok \in BOOLEAN : CallbackSettles(ok)
    \/ EndEvent

StreamSpec == StreamInit /\ [][StreamNext]_vars

\* nothing is left to happen: no event is due and no callback is awaited
Quiescent ==
    /\ call.stage = "stream"
    /\ call.pc = "idle"
    /\ call.errored \/ (call.sourceEnded /\ ~call.readableDue)
    /\ call.errored \/ call.endEmitted \/ ~call.endDue \/ call.buffer # << >>

\* the lines of the rows after the header that have a field
RECURSIVE LinesFrom(_, _)
LinesFrom(rs, i) ==
    IF i > Len(rs) THEN << >>
    ELSE (IF rs[i] THEN << i >> ELSE << >>) \o LinesFrom(rs, i + 1)

FullLines(rs) == LinesFrom(rs, 2)

\* a cap N >= 1 on an input with more than N rows that have a field, and no
\* structural error
CapExceeded ==
    /\ call.stage = "stream"
    /\ call.maxRecords >= 1
    /\ Len(FullLines(call.rows)) > call.maxRecords
    /\ ~call.structural

C24_ExactlyCap ==
    CapExceeded
       => (/\ Len(call.invoked) <= call.maxRecords
           /\ Quiescent
                 => call.invoked =
                       SubSeq(FullLines(call.rows), 1, call.maxRecords))

C24_Resolves ==
    CapExceeded
       => (/\ call.promise # "rejected"
           /\ Quiescent => call.promise = "resolved")

\* C24: with a cap N >= 1 in the parse options and an input of more than N
\* non-empty rows, parseCSVStream invokes onRecord exactly N times, reads no
\* further input afterwards, and its promise resolves: it neither rejects
\* nor stays pending for ever.
C24_CapStopsAndResolves ==
    /\ C24_ExactlyCap
    /\ CapExceeded => call.afterStop = 0
    /\ C24_Resolves

C24_NeverRejects == CapExceeded => call.promise # "rejected"

C24_NeverHangs == CapExceeded /\ Quiescent => call.promise = "resolved"

C24_NothingAfterStop == CapExceeded => call.afterStop = 0

\* no cap and no structural error
PlainStream ==
    /\ call.stage = "stream"
    /\ call.maxRecords = 0
    /\ ~call.structural

\* C25: if the record callback throws or rejects for a record,
\* parseCSVStream does not reject: it invokes the callback for every later
\* non-empty row in order and resolves normally at the end of the input.
C25_CallbackErrorIsSkipped ==
    PlainStream
       => (/\ call.promise # "rejected"
           /\ IsPrefix(call.invoked, FullLines(call.rows))
           /\ Quiescent
                 => (/\ call.promise = "resolved"
                     /\ call.invoked = FullLines(call.rows)))

\* a callback threw, later records were delivered and
\* the promise is resolved
C25_Witness ==
    /\ PlainStream
    /\ Quiescent
    /\ call.thrown >= 1
    /\ Len(call.invoked) >= 3
    /\ call.promise = "resolved"

\* ---- convertValue on its own: a cell, a declared type, a default ----
CellChars == {"0", "1", ".", "-", Comma, "y", "N", "o", Space}

Cells ==
    UNION {[1..n -> CellChars] : n \in 0..MaxCellLen}
       \cup {<< "t", "r", "u", "e" >>, << "F", "a", "l", "s", "e" >>,
              << "n", "u", "l", "l" >>, << "1", Comma, "0", "0", "0" >>,
              << Space, "2", "0", "0", "1", Tab >>}

FieldTypes == {"string", "number", "boolean", "date", "json"}

SomeDefault == << "default" >>

Conversions ==
    [stage : {"cell"}, value : Cells, type : FieldTypes,
     defaultValue : {Undefined, Null, SomeDefault}, validDate : BOOLEAN,
     returned : {Undefined}, again : {Undefined}]

ConvertInit == ServerInit({<< 0, 0 >>}) /\ useDatabase /\ call \in Conversions

Convert ==
    /\ call.stage = "cell"
    /\ call' = [call EXCEPT
                  !.stage = "converted",
                  !.returned = convertValue(call.value, call.type,
                                            call.defaultValue)]
    /\ UNCHANGED serverVars

\* the text of a run of digits without its leading zeros
RECURSIVE NoLeadingZeros(_)
NoLeadingZeros(t) ==
    IF Len(t) > 1 /\ Head(t) = "0" THEN NoLeadingZeros(Tail(t)) ELSE t

\* the text of a run of digits without its trailing zeros
RECURSIVE NoTrailingZeros(_)
NoTrailingZeros(t) ==
    IF t # << >> /\ t[Len(t)] = "0"
    THEN NoTrailingZeros(SubSeq(t, 1, Len(t) - 1))
    ELSE t

\* String(n) for the number that the decimal literal lit denotes: no
\* leading or trailing zeros, no point without decimals, 0 for -0
NumberText(lit) ==
    LET minus == Head(lit) = "-"
        body == IF minus THEN Tail(lit) ELSE lit
        int == NoLeadingZeros(IF Digits(body) = << >> THEN << "0" >>
                              ELSE Digits(body))
        rest == SubSeq(body, Len(Digits(body)) + 1, Len(body))
        frac == IF rest = << >> THEN << >>
                ELSE NoTrailingZeros(Digits(Tail(rest)))
        zero == int = << "0" >> /\ frac = << >>
    IN (IF minus /\ ~zero THEN << "-" >> ELSE << >>) \o int
          \o (IF frac = << >> THEN << >> ELSE << "." >> \o frac)

\* String(value): the text a typed value is rendered to
Render(value) ==
    IF value = True THEN << "t", "r", "u", "e" >>
    ELSE IF value = False THEN << "f", "a", "l", "s", "e" >>
    ELSE IF value = Null THEN << "n", "u", "l", "l" >>
    ELSE IF Head(value) \in {"number", "json"} THEN NumberText(Tail(value))
    ELSE value

\* the values the model renders: not a default that is no text, and not a
\* date, whose text depends on the time zone of the engine
Renderable(value) ==
    /\ value \notin {Undefined, SomeDefault, << >>}
    /\ Head(value) # "date"

\* the returned value is rendered to text and coerced again with the same
\* declared type and default
Recoerce ==
    /\ call.stage = "converted"
    /\ Renderable(call.returned)
    /\ call' = [call EXCEPT
                  !.stage = "recoerced",
                  !.again = convertValue(Render(call.returned), call.type,
                                         call.defaultValue)]
    /\ UNCHANGED serverVars

ConvertNext == Convert \/ Recoerce

ConvertSpec == ConvertInit /\ [][ConvertNext]_vars

\* a text of the characters a cell can hold
IsText(v) == \A i \in 1..Len(v) : v[i] \in CellChars \cup {"t", "r", "u", "e", "F", "a", "l", "s", "n", "2", Tab}

\* v is a value of the declared type
HasType(v, type) ==
    CASE type = "string" -> v # << >> /\ IsText(v)
      [] type = "number" -> v # << >> /\ Head(v) = "number" /\ Len(v) > 1
      [] type = "boolean" -> v \in {True, False}
      [] type = "date" -> v # << >> /\ Head(v) = "date"
      [] type = "json" ->
           \/ v \in {True, False, Null}
           \/ v # << >> /\ Head(v) = "json"

\* C27: convertValue never throws: for every raw text, every declared type
\* and every default it returns either a value of the declared type or the
\* configured default (null when none is configured); an empty or
\* whitespace-only cell always yields the default.
C27_ValueOrDefault ==
    call.stage = "converted"
       => (/\ \/ HasType(call.returned, call.type)
              \/ call.returned = OrNull(call.defaultValue)
           /\ Trim(call.value) = << >>
                 => call.returned = OrNull(call.defaultValue))

\* a cell that is not a number, converted with a default configured
C27_Witness ==
    /\ call.stage = "converted"
    /\ call.type = "number"
    /\ call.value = << "-", ".", "y" >>
    /\ call.defaultValue = SomeDefault
    /\ call.returned = SomeDefault

\* ---- transformRow on its own: a schema, a header row, a data row ----
SourceNames == {<< "a" >>, << "b" >>}

TargetNames == {<< "x" >>, << "y" >>}

Group == << "g" >>

Defaults == {Null, SomeDefault}

Transforms == {"toNull", "mark", "throws"}

\* column definitions: with or without a default, with or without a
\* transform
ColumnDefs ==
    [columnName : SourceNames, fieldName : TargetNames]
       \cup [columnName : SourceNames, fieldName : TargetNames,
              defaultValue : Defaults]
       \cup [columnName : SourceNames, fieldName : TargetNames,
              transform : Transforms]
       \cup [columnName : SourceNames, fieldName : TargetNames,
              defaultValue : Defaults, transform : Transforms]

\* the column definitions of the nested groups
SubColumnDefs ==
    [columnName : SourceNames, fieldName : TargetNames]
       \cup [columnName : SourceNames, fieldName : TargetNames,
              defaultValue : Defaults]
       \cup [columnName : SourceNames, fieldName : TargetNames,
              transform : {"toNull"}]

ColumnSeqs(defs) == UNION {[1..n -> defs] : n \in 1..MaxColumns}

\* schemas of flat columns, and schemas of at most one plain flat column
\* and one nested group
Schemas ==
    [name : {"flat"}, hasHeaders : {TRUE}, columns : ColumnSeqs(ColumnDefs)]
       \cup [name : {"nested"}, hasHeaders : {TRUE},
              columns : {<< >>}
                           \cup {<< c >> : c \in [columnName : SourceNames,
                                                  fieldName : TargetNames]},
              nestedFields :
                 {<< g >> : g \in [fieldName : {Group},
                                   columns : ColumnSeqs(SubColumnDefs)]}]

HeaderRows == {<< << "a" >> >>, << << "a" >>, << "b" >> >>,
               << << "B" >>, << "a" >> >>}

CellTexts == {<< >>, << "1" >>}

CellRows == UNION {[1..n -> CellTexts] : n \in 0..MaxRowCells}

RowCalls ==
    [stage : {"row"}, schema : Schemas, header : HeaderRows, row : CellRows,
     record : {NoFields}, errors : {<< >>}]

RowInit == ServerInit({<< 0, 0 >>}) /\ useDatabase /\ call \in RowCalls

TransformRow ==
    /\ call.stage = "row"
    /\ LET t == transformRow(call.row, HeaderMap(call.header), call.schema)
       IN call' = [call EXCEPT !.stage = "transformed",
                               !.record = t.record,
                               !.errors = t.errors]
    /\ UNCHANGED serverVars

RowNext == TransformRow

RowSpec == RowInit /\ [][RowNext]_vars

Transformed == call.stage = "transformed"

\* the header row names the source column of the definition
Present(column) ==
    ToLowerCase(column.columnName) \in DOMAIN HeaderMap(call.header)

\* the definition is of a column the header does not name and configures
\* the default null
NullDefault(column) == ~Present(column) /\ DefaultValue(column) = Null

\* C28 (as stated): no field of a record produced by transformRow is null,
\* for every schema, header and row.
C28_NoNullField ==
    Transformed => \A f \in DOMAIN call.record : call.record[f] # Null

\* C28 (amended): a field of the record is null only as the configured
\* default of a column the header does not name; the value of a column the
\* header names (coerced cell or transform result) is assigned only when
\* it is not null.
C28_NullOnlyAsDefault ==
    Transformed
       => \A f \in DOMAIN call.record :
             call.record[f] = Null
                => \E i \in DOMAIN call.schema.columns :
                      /\ call.schema.columns[i].fieldName = f
                      /\ NullDefault(call.schema.columns[i])

\* the one column of the schema is named by the header, its cell is 1 and
\* its transform returns null: the record has no field
C28_Witness ==
    /\ Transformed
    /\ call.schema.columns
          = << [columnName |-> << "a" >>, fieldName |-> << "x" >>,
                transform |-> "toNull"] >>
    /\ NestedFields(call.schema) = << >>
    /\ call.row = << << "1" >> >>
    /\ DOMAIN call.record = {}

\* the value the definition produced for the row: that of the cell when the
\* header names the column, else the configured default (undefined when
\* there is none)
Produced(column) ==
    IF Present(column)
    THEN ColumnValue(column, call.row,
                     HeaderMap(call.header)[ToLowerCase(column.columnName)]).value
    ELSE DefaultValue(column)

NonNull(value) == value # Null /\ value # Undefined

\* the definition assigns its field: a value that is not null for a column
\* the header names, any configured default for a column it does not name
Assigns(column) ==
    IF Present(column) THEN Produced(column) # Null
    ELSE DefaultValue(column) # Undefined

Included(nested) == nested.fieldName \in DOMAIN call.record

\* C29 (as stated): a nested group's sub-record is in the parent record if
\* and only if at least one of the group's sub-fields produced a non-null
\* value.
C29_IncludedIffNonNull ==
    Transformed
       => \A n \in DOMAIN NestedFields(call.schema) :
             LET nested == NestedFields(call.schema)[n]
             IN Included(nested)
                   <=> \E i \in DOMAIN nested.columns :
                          NonNull(Produced(nested.columns[i]))

\* C29 (amended): a nested group's sub-record is in the parent record if
\* and only if at least one of the group's sub-fields was assigned: a
\* non-null value of a column the header names, or the configured default,
\* null included, of a column the header does not name.  A sub-record in
\* the parent record has at least one field.
C29_IncludedIffAssigned ==
    Transformed
       => \A n \in DOMAIN NestedFields(call.schema) :
             LET nested == NestedFields(call.schema)[n]
             IN /\ Included(nested)
                      <=> \E i \in DOMAIN nested.columns :
                             Assigns(nested.columns[i])
                /\ Included(nested)
                      => DOMAIN call.record[nested.fieldName][2] # {}

\* a group of one sub-column that the header does not name and whose
\* default is null: the sub-record is in the record, its one field null
C29_Witness ==
    /\ Transformed
    /\ NestedFields(call.schema)
          = << [fieldName |-> Group,
                columns |-> << [columnName |-> << "b" >>,
                                fieldName |-> << "x" >>,
                                defaultValue |-> Null] >>] >>
    /\ call.header = << << "a" >> >>
    /\ Group \in DOMAIN call.record
    /\ call.record[Group] = Object(<< "x" >> :> Null)

\* a group none of whose sub-columns is assigned is left out
C29_WitnessLeftOut ==
    /\ Transformed
    /\ NestedFields(call.schema) # << >>
    /\ call.row = << << "1" >>, << >> >>
    /\ call.header = << << "a" >>, << "b" >> >>
    /\ call.schema.columns # << >>
    /\ Group \notin DOMAIN call.record
    /\ DOMAIN call.record # {}

\* the value of the field in the record, undefined when the record has no
\* such field
FieldValue(f) == IF f \in DOMAIN call.record THEN call.record[f] ELSE Undefined

\* what the definition alone makes of its field: nothing for a null value
\* of a column the header names
Alone(column) ==
    IF Present(column) /\ Produced(column) = Null THEN Undefined
    ELSE Produced(column)

Columns == call.schema.columns

\* the definitions i and k share the field name
Share(i, k) == Columns[i].fieldName = Columns[k].fieldName

\* C30 (as stated): when two column definitions share a fieldName, the
\* value of the field in the record is the one produced by the later
\* definition, for every row and every header.
C30_LaterWins ==
    Transformed
       => \A i, k \in DOMAIN Columns :
             (i < k /\ Share(i, k)
                /\ \A l \in DOMAIN Columns : l > k => ~Share(k, l))
                => FieldValue(Columns[k].fieldName) = Alone(Columns[k])

\* C30 (amended): the value of a field of several column definitions is
\* the one of the last definition in declaration order that assigns it (a
\* non-null value of a column the header names, or the configured default
\* of a column it does not name); a later definition that assigns nothing
\* leaves the value of the earlier one in place, and the record has no such
\* field when no definition assigns it.
C30_LastAssignedWins ==
    Transformed
       => \A f \in {Columns[i].fieldName : i \in DOMAIN Columns} :
             LET assigning == {i \in DOMAIN Columns :
                                 /\ Columns[i].fieldName = f
                                 /\ Assigns(Columns[i])}
                 last == CHOOSE i \in assigning :
                            \A k \in assigning : k <= i
             IN FieldValue(f) = IF assigning = {} THEN Undefined
                                ELSE Alone(Columns[last])

\* two definitions of the field x, the header names both columns, the cell
\* of the earlier is 1 and the cell of the later is empty: x is 1
C30_Witness ==
    /\ Transformed
    /\ Columns = << [columnName |-> << "a" >>, fieldName |-> << "x" >>],
                    [columnName |-> << "b" >>, fieldName |-> << "x" >>] >>
    /\ call.header = << << "a" >>, << "b" >> >>
    /\ call.row = << << "1" >>, << >> >>
    /\ FieldValue(<< "x" >>) = << "1" >>

\* both cells have a value: x is the value of the later definition
C30_WitnessLater ==
    /\ Transformed
    /\ Columns = << [columnName |-> << "a" >>, fieldName |-> << "x" >>],
                    [columnName |-> << "b" >>, fieldName |-> << "x" >>,
                     transform |-> "mark"] >>
    /\ call.header = << << "a" >>, << "b" >> >>
    /\ call.row = << << "1" >>, << "1" >> >>
    /\ FieldValue(<< "x" >>) = << "transformed", "1" >>

\* ---- detectFileFormat: the delimiter and the confidence ----
Detected == call.stage = "detected"

TabCount == CountChar(call.lines[1], Tab)

CommaCount == CountChar(call.lines[1], Comma)

\* C31: detectFileFormat chooses tab exactly when the tab count of the
\* first line is nonzero and higher than the comma count; in every other
\* case (comma count higher, equal counts, neither character) it chooses
\* comma.
C31_TabIffStrictlyMore ==
    (Detected /\ call.readable)
       => /\ call.detected.delimiter \in {Tab, Comma}
          /\ call.detected.delimiter = Tab
                <=> (TabCount > 0 /\ TabCount > CommaCount)

\* what the code does at equal counts: tab is chosen when its count is
\* nonzero and at least the comma count
C31_TabIffAtLeast ==
    (Detected /\ call.readable)
       => /\ call.detected.delimiter \in {Tab, Comma}
          /\ call.detected.delimiter = Tab
                <=> (TabCount > 0 /\ TabCount >= CommaCount)

\* a first line with as many tabs as commas, for which tab was chosen
C31_WitnessTie ==
    /\ Detected
    /\ call.readable
    /\ TabCount = 1
    /\ CommaCount = 1
    /\ call.detected.delimiter = Tab

\* C32: detectFileFormat never throws: when the sample cannot be read it
\* returns the default guess with confidence exactly 0.5, and for every
\* readable input the confidence lies in [0.5, 0.95] (in thousandths).
C32_ConfidenceBounded ==
    Detected
       => /\ call.detected.format = (IF call.ext = "txt" THEN "txt" ELSE "csv")
          /\ ~call.readable
                => /\ call.detected.confidence = 500
                   /\ call.detected.delimiter = Comma
                   /\ call.detected.sampleHeaders = NoHeaders
          /\ call.readable
                => /\ call.detected.confidence >= 500
                   /\ call.detected.confidence <= 950

\* a first line of ManyCount commas: the confidence is the cap
C32_Witness ==
    /\ Detected
    /\ call.readable
    /\ call.lines = << ManyCommas >>
    /\ call.detected.confidence = 950

\* a file that cannot be read: the default guess
C32_WitnessUnreadable ==
    /\ Detected
    /\ ~call.readable
    /\ call.ext = "csv"
    /\ call.detected.confidence = 500

\* ---- parseCSVStream: the first row, empty records, field errors ----
\* parseCSVStream has read no row yet and one is there to read
AtFirstRow ==
    call.stage = "parsing" /\ call.lineNumber = 0 /\ call.unread # << >>

\* the header map the schemas without a header row are to get: the custom
\* headers B, a in lower case, or the indices of the cells of the row
ExpectedMap(schema, row) ==
    IF schema.name = "custom"
    THEN [h \in {<< "a" >>, << "b" >>} |-> IF h = << "b" >> THEN 1 ELSE 2]
    ELSE IF Len(row) = 1
    THEN [h \in {<< "0" >>} |-> 1]
    ELSE [h \in {<< "0" >>, << "1" >>} |-> IF h = << "0" >> THEN 1 ELSE 2]

Emitted(record, lineNumber) ==
    << [record |-> record, lineNumber |-> lineNumber] >>

\* the step that reads the first row
FirstRowStep ==
    LET row == Head(call.unread)
        headers == "hasHeaders" \notin DOMAIN call.schema
                      \/ call.schema.hasHeaders
        t == transformRow(row, ExpectedMap(call.schema, row), call.schema)
    IN IF headers
       THEN /\ call'.headerMap = HeaderMap(row)
            /\ call'.records = << >>
            /\ call'.recordCount = 0
       ELSE /\ call'.headerMap = ExpectedMap(call.schema, row)
            /\ call'.records = IF DOMAIN t.record = {} THEN << >>
                               ELSE Emitted(t.record, 1)

C33_WitnessHeader ==
    /\ call.schema.name = "undeclared"
    /\ call.lineNumber = 1
    /\ call.headerMap = (<< "a" >> :> 1) @@ (<< "b" >> :> 2)
    /\ call.records = << >>

\* custom headers B, a and the first row 1,a: y is 1 and x is a
C33_WitnessCustom ==
    /\ call.schema.name = "custom"
    /\ call.lineNumber = 1
    /\ call.records
          = Emitted((<< "x" >> :> << "a" >>) @@ (<< "y" >> :> << "number", "1" >>),
                    1)

\* the next row to read is a data row whose record has no field
EmptyRecordNext ==
    /\ call.stage = "parsing"
    /\ call.unread # << >>
    /\ call.headerMap # NoMap
    /\ DOMAIN transformRow(Head(call.unread), call.headerMap,
                           call.schema).record = {}

\* C34: a row whose transformed record has zero assigned fields causes no
\* onRecord call and is not counted: the step that reads it changes neither
\* the record count nor the records handed to the callback, the progress
\* or the sample.
C34_EmptyRecordSkipped ==
    [][EmptyRecordNext
          => /\ call'.lineNumber = call.lineNumber + 1
             /\ call'.recordCount = call.recordCount
             /\ call'.records = call.records
             /\ call'.sample = call.sample
             /\ call'.progress = call.progress
             /\ call'.lastProgressSent = call.lastProgressSent]_vars

\* the file id,name / , / 1,Alice: line 2 has no value, the one record is
\* that of line 3
C34_Witness ==
    /\ call.stage = "completed"
    /\ call.lines = << IdName, << Comma >>, OneAlice >>
    /\ call.static = requiredName
    /\ ~call.useDynamicSchema
    /\ call.userDelimiter = ""
    /\ Len(call.records) = 1
    /\ call.records[1].lineNumber = 3
    /\ call.result.count = 1

\* C34, for the batch of the server: reading a row whose record has no
\* field (one row less to read, no stream error, no row with a field more)
\* leaves the job's record count, batch, callback position, registry
\* document and the records handed to the store as they were
C34_SkipLeavesBatch ==
    [][\A j \in Jobs :
          (/\ unread'[j] = unread[j] - 1
           /\ nonEmptyRows'[j] = nonEmptyRows[j]
           /\ destroyed'[j] = destroyed[j])
             => /\ recordCount'[j] = recordCount[j]
                /\ batch'[j] = batch[j]
                /\ cpc'[j] = cpc[j]
                /\ reg'[j] = reg[j]
                /\ lastProgressSent'[j] = lastProgressSent[j]
                /\ handed' = handed]_vars

\* the number column of the schemas of ParseSpec
NumberColumn == call.schema.columns[2]

Letters == {<< "a" >>, << "b" >>}

\* the next row to read is a data row whose cell of the number column is a
\* letter, which parseFloat does not read as a number
CoercionFailsNext ==
    /\ call.stage = "parsing"
    /\ call.unread # << >>
    /\ ~(HasHeaders(call.schema) /\ call.headerMap = NoMap)
    /\ LET row == Head(call.unread)
           map == IF call.headerMap = NoMap
                  THEN ExpectedMap(call.schema, row)
                  ELSE call.headerMap
           key == ToLowerCase(NumberColumn.columnName)
       IN /\ key \in DOMAIN map
          /\ map[key] <= Len(row)
          /\ row[map[key]] \in Letters

\* the record handed to the callback by the step, if any
NewRecords == SubSeq(call'.records, Len(call.records) + 1, Len(call'.records))

\* the default is substituted: the field of the number column is the
\* configured default, and is left out when no default is configured
C35_DefaultSubstituted ==
    [][CoercionFailsNext
          => \A i \in DOMAIN NewRecords :
                LET record == NewRecords[i].record
                    f == NumberColumn.fieldName
                IN IF "defaultValue" \in DOMAIN NumberColumn
                   THEN f \in DOMAIN record
                           /\ record[f] = NumberColumn.defaultValue
                   ELSE f \notin DOMAIN record]_vars

\* a field-level error with the row's line number and the column name is
\* recorded for the row
C35_ErrorRecorded ==
    [][CoercionFailsNext
          => \E i \in DOMAIN call'.errors :
                /\ call'.errors[i].line = call.lineNumber + 1
                /\ call'.errors[i].column = NumberColumn.columnName]_vars

\* C35: when a cell cannot be coerced to its column's declared type, the
\* default value is substituted and a field-level error carrying the row's
\* line number and the column name is recorded for the row.
C35_CoercionFailureReported ==
    C35_DefaultSubstituted /\ C35_ErrorRecorded

\* header a,b and the row 1,a at line 2: y is the default and no error is
\* recorded
C35_WitnessNoError ==
    /\ call.schema.name = "headers-default"
    /\ call.lineNumber = 2
    /\ call.headerMap = (<< "a" >> :> 1) @@ (<< "b" >> :> 2)
    /\ call.records
          = Emitted((<< "x" >> :> << "1" >>) @@ (<< "y" >> :> << "default" >>),
                    2)
    /\ call.errors = << >>

\* ---- convertValue: rendering and coercing again ----
\* the same typed value: numbers are equal when they denote the same number
\* (0 and -0 are equal, as for ===)
SameValue(u, v) ==
    IF u # << >> /\ v # << >> /\ Head(u) = "number" /\ Head(v) = "number"
    THEN NumberText(Tail(u)) = NumberText(Tail(v))
    ELSE u = v

\* the literal denotes an integer
IntegerValued(lit) ==
    \A i \in 1..Len(NumberText(lit)) : NumberText(lit)[i] # "."

\* a text, a boolean or an integer-valued number of the declared type
Representable(value, type) ==
    /\ HasType(value, type)
    /\ type \in {"string", "boolean", "number"}
    /\ type = "number" => IntegerValued(Tail(value))

\* C36: coercion is idempotent under re-rendering: rendering a typed value
\* (a text, a boolean, an integer-valued number) back to text and coercing
\* that text again with the same declared type and default yields the same
\* typed value.
C36_RoundTrip ==
    (call.stage = "recoerced" /\ Representable(call.returned, call.type))
       => SameValue(call.again, call.returned)

\* the cell 01. read as the number 1, rendered as 1 and read again
C36_Witness ==
    /\ call.stage = "recoerced"
    /\ call.type = "number"
    /\ call.value = << "0", "1", "." >>
    /\ call.returned = << "number", "0", "1", "." >>
    /\ call.again = << "number", "1" >>

\* the cell y read as true, rendered as true and read again
C36_WitnessBoolean ==
    /\ call.stage = "recoerced"
    /\ call.type = "boolean"
    /\ call.value = << "y" >>
    /\ call.returned = True
    /\ call.again = True

\* the same for every number, with or without decimals, and for the values
\* of type json
C36_RoundTripAll ==
    (call.stage = "recoerced" /\ HasType(call.returned, call.type))
       => \/ SameValue(call.again, call.returned)
          \/ /\ call.type = "json"
             /\ Head(call.returned) = "json"
             /\ call.again = << "json" >> \o NumberText(Tail(call.returned))

\* ---- the promise of parseCSVStream and the callbacks it started ----
\* the promise of parseCSVStream settles: processParseJob goes on after its
\* await, to the final flush, to the completion or to the catch block
PromiseSettles(j) == wpc[j] = "parse" /\ wpc'[j] # "parse"

C37_SettlesAfterCallbacks ==
    [][\A j \in Jobs : PromiseSettles(j) => cpc[j] = "none"]_vars

C37_FinalFlushAlone ==
    [](\A j \in Jobs : wpc[j] = "final" => cpc[j] = "none")

\* C37: the promise of parseCSVStream settles only after every onRecord
\* invocation it started has settled: when it settles no per-record
\* callback is in flight, so the final flush of processParseJob never runs
\* while a callback of the same job is awaiting the store.
C37_NoCallbackInFlight == C37_SettlesAfterCallbacks /\ C37_FinalFlushAlone

\* the final flush has been called while a callback of the job awaits its
\* own flush
C37_WitnessOverlap ==
    \E j \in Jobs : wpc[j] = "final" /\ cpc[j] = "flush"

\* no record is handed to the store twice: a batch handed over starts after
\* the last record handed over before
C38_NoneTwice ==
    [][\A j \in Jobs :
         CallsStore(j) => batch'[j][1] > handed[j]]_vars

\* a record appended to the batch of a job that has completed and has no
\* callback in flight was never handed over, and no flush is left to do it
Lost(j) ==
    /\ wpc[j] = "completed"
    /\ cpc[j] = "none"
    /\ batch[j] # << >>
    /\ batch[j][Len(batch[j])] > handed[j]

\* no record is lost
C38_NoneLost == [](\A j \in Jobs : ~Lost(j))

\* C38: with the store enabled and no store write failing, every record
\* emitted by the pipeline is handed to the store adapter in exactly one
\* flush call: none is lost and none is written twice.
C38_ExactlyOnce == C38_NoneTwice /\ C38_NoneLost

\* the final flush hands over a batch whose last record a pending callback
\* flush has already handed over
C38_WitnessTwice ==
    \E j \in Jobs :
       /\ wpc[j] = "final"
       /\ cpc[j] = "flush"
       /\ batch[j] # << >>
       /\ handed[j] = batch[j][Len(batch[j])]
====
